---- MODULE Spec2Model ----
(***************************************************************************)
(* State-machine model of the OneDrive uploader's transfer core:           *)
(*   - GraphClient.calculateBytesRange   (src/graph.ts)                    *)
(*   - GraphClient.retryWithBackoff      (src/graph.ts)                    *)
(*   - GraphClient.uploadFileToSession   (src/graph.ts)                    *)
(*   - UploadQueue                       (src/upload-queue.ts)             *)
(*   - GraphClient.getAccessToken        (src/graph.ts)                    *)
(*   - GraphClient.uploadFile, handleUpload, handleUploadDirectory         *)
(*                                       (src/graph.ts, the CLI driver)    *)
(* Each component has its own specification (SpecRange, SpecRetry,         *)
(* SpecEngine, SpecFaithful, SpecQueue, SpecToken, SpecUpload, SpecBatch)  *)
(* over the shared variables; the variables a specification does not use   *)
(* stay at their initial value.                                            *)
(***************************************************************************)
EXTENDS Integers, Sequences, FiniteSets, TLC

VARIABLES
  \* ---- calculateBytesRange: one call and its outcome
  rFileSize, rChunkSize, rSession, rResult,
  \* ---- retryWithBackoff: one invocation
  maxRetries, initialDelay, maxDelay,   \* parameters
  attempt, delay, lastError,            \* locals of the loop
  rpc,                                  \* position in the loop
  retResult,                            \* what the invocation settled with
  history,                              \* outcome of every settled call of fn
  calls,                                \* number of calls of fn
  sleepCount, backoffDelay,             \* number of sleeps, and the last one
  \* ---- uploadFileToSession: one invocation
  epc,                                  \* position in uploadFileToSession
  fileSize, uploadUrl, eMaxRetries,     \* file.size, session.uploadUrl, maxRetries
  currentSession,                       \* the local currentSession
  range,                                \* { start, end, chunkSize } of the iteration
  iter,                                 \* iterations of the while loop begun
  inflight,                             \* PUT requests sent and not yet answered
  putCount, lastPut,                    \* PUTs sent so far, and the last one
  response,                             \* the response retryWithBackoff returned
  progressCount, progress,              \* onProgress calls, and the last argument
  engineResult,                         \* what uploadFileToSession settled with
  \* ---- UploadQueue
  queue, maxConcurrency, successCount, failCount, totalFiles, running,
  taskState, taskKind, started, added, unhandled, wpc, wsnap,
  \* ---- GraphClient.getAccessToken
  tokenPromise,                         \* this.tokenPromise: 0 (null) or a promise
  outstanding,                          \* acquisitions requested and not settled
  tokenOutcome,                         \* what each acquisition promise settled with
  callerPromise,                        \* the promise each getAccessToken() call got
  callerResult,                         \* what each call's await settled with
  \* ---- one file handled by handleUpload or by a task of handleUploadDirectory
  hpc,                                  \* position in the handler
  hBatch,                               \* run as a task of the batch queue
  hFileSize,                            \* the file's size
  flakyChunk,                           \* the chunk whose first PUT the server fails
  sessionCalls, directPuts,             \* createUploadSession calls, content PUTs
  hResult,                              \* what the upload settled with
  failedCount                           \* uploads of the batch that threw

rangeVars  == <<rFileSize, rChunkSize, rSession, rResult>>
retryVars  == <<maxRetries, initialDelay, maxDelay, attempt, delay, lastError,
                rpc, retResult, history, calls, sleepCount, backoffDelay>>
engineVars == <<epc, fileSize, uploadUrl, eMaxRetries, currentSession, range,
                iter, inflight, putCount, lastPut, response, progressCount,
                progress, engineResult>>
queueVars  == <<queue, maxConcurrency, successCount, failCount, totalFiles,
                running, taskState, taskKind, started, added, unhandled,
                wpc, wsnap>>
tokenVars  == <<tokenPromise, outstanding, tokenOutcome, callerPromise,
                callerResult>>
uploadVars == <<hpc, hBatch, hFileSize, flakyChunk, sessionCalls, directPuts,
                hResult, failedCount>>
vars == <<rangeVars, retryVars, engineVars, queueVars, tokenVars, uploadVars>>

(***************************************************************************)
(* JavaScript values used by the code                                      *)
(***************************************************************************)

\* A JS number that is an integer or NaN.
Num(n) == [nan |-> FALSE, v |-> n]
NaN    == [nan |-> TRUE,  v |-> 0]

\* a + b, a - b : NaN is contagious.
NumAdd(a, b) == IF a.nan \/ b.nan THEN NaN ELSE Num(a.v + b.v)
NumSub(a, b) == IF a.nan \/ b.nan THEN NaN ELSE Num(a.v - b.v)

\* Math.min(a, b): NaN if either argument is NaN.
MathMin(a, b) == IF a.nan \/ b.nan THEN NaN
                 ELSE IF a.v <= b.v THEN a ELSE b

\* The character of s at position i (1-based), as a one-character string.
CharAt(s, i) == SubSeq(s, i, i)

Digits == "0123456789"

IsDigit(c) == \E d \in 1..10 : CharAt(Digits, d) = c

DigitVal(c) == (CHOOSE d \in 1..10 : CharAt(Digits, d) = c) - 1

\* White space as String.prototype.trim and the regex class \s see it.
IsSpace(c) == c \in {" ", "\n", "\t", "\r"}

RECURSIVE TrimLeft(_)
TrimLeft(s) == IF Len(s) > 0 /\ IsSpace(CharAt(s, 1))
               THEN TrimLeft(SubSeq(s, 2, Len(s))) ELSE s

RECURSIVE TrimRight(_)
TrimRight(s) == IF Len(s) > 0 /\ IsSpace(CharAt(s, Len(s)))
                THEN TrimRight(SubSeq(s, 1, Len(s) - 1)) ELSE s

\* String.prototype.trim
Trim(s) == TrimRight(TrimLeft(s))

AllDigits(s) == \A i \in 1..Len(s) : IsDigit(CharAt(s, i))

RECURSIVE DecimalValue(_)
DecimalValue(s) == IF Len(s) = 0 THEN 0
                   ELSE 10 * DecimalValue(SubSeq(s, 1, Len(s) - 1))
                        + DigitVal(CharAt(s, Len(s)))

\* Number(s) on strings over digits, white space and characters that occur
\* in no numeric literal: white space is trimmed, "" is 0, a run of decimal
\* digits is its value, anything else is NaN.
ToNumber(s) == LET t == Trim(s) IN
               IF Len(t) = 0 THEN Num(0)
               ELSE IF AllDigits(t) THEN Num(DecimalValue(t))
               ELSE NaN

\* `${n}` for an integer n.
RECURSIVE NatToString(_)
NatToString(n) == IF n < 10 THEN CharAt(Digits, n + 1)
                  ELSE NatToString(n \div 10) \o CharAt(Digits, (n % 10) + 1)

IntToString(n) == IF n < 0 THEN "-" \o NatToString(0 - n) ELSE NatToString(n)

NumToString(a) == IF a.nan THEN "NaN" ELSE IntToString(a.v)

\* The index of the first occurrence of sub in s at or after from, 0 if none.
IndexOf(s, sub, from) ==
  LET hits == {i \in from..(Len(s) - Len(sub) + 1) :
                 SubSeq(s, i, i + Len(sub) - 1) = sub}
  IN IF hits = {} THEN 0 ELSE CHOOSE i \in hits : \A j \in hits : i <= j

\* String.prototype.includes
Includes(s, sub) == IndexOf(s, sub, 1) # 0

\* String.prototype.split with a one-character separator.
RECURSIVE Split(_, _)
Split(s, sep) == LET i == IndexOf(s, sep, 1) IN
                 IF i = 0 THEN <<s>>
                 ELSE <<SubSeq(s, 1, i - 1)>> \o Split(SubSeq(s, i + 1, Len(s)), sep)

\* An Error object as the retry logic inspects it: status = 0 stands for
\* no status attached; isError is `instanceof Error`.
MkError(msg, st, net) ==
  [isError |-> TRUE, isNetworkError |-> net, status |-> st, message |-> msg]

NoError == [isError |-> FALSE, isNetworkError |-> FALSE, status |-> 0, message |-> ""]

(***************************************************************************)
(* GraphClient.calculateBytesRange                                         *)
(***************************************************************************)

MIN_CHUNK_SIZE == 327680

MAX_CHUNK_SIZE == 1024 * 1024 * 50

\* session.nextExpectedRanges: isArray is Array.isArray of the field (FALSE
\* for a missing or null field or any other non-array value), items its
\* entries.
Ranges(items)  == [isArray |-> TRUE, items |-> items]
NotAnArray     == [isArray |-> FALSE, items |-> <<>>]

\* A parsed JSON body read as an UploadSession; id is the id of a DriveItem
\* body and "" in a session.
MkSession(url, ner) == [id |-> "", uploadUrl |-> url, nextExpectedRanges |-> ner]

Thrown(err) == [threw |-> TRUE, error |-> err,
                start |-> NaN, end |-> NaN, chunkSize |-> NaN]

Returned(start, end, size) == [threw |-> FALSE, error |-> NoError,
                               start |-> start, end |-> end, chunkSize |-> size]

\* ChunkSizeError without the multiple-of-320-KiB check.
ChunkSizeError_NoMultipleCheck(fSize, cSize) ==
  IF cSize < MIN_CHUNK_SIZE \/ cSize > MAX_CHUNK_SIZE
  THEN "Default chunk size is out of range. Must be between 320 KB and 50 MB. chunkSize: "
       \o IntToString(cSize)
  ELSE IF fSize < cSize
  THEN "File size is smaller than chunk size. fileSize: " \o IntToString(fSize)
       \o ", chunkSize: " \o IntToString(cSize)
  ELSE ""

\* ChunkSizeError without the check of the file size.
ChunkSizeError_NoFileSizeCheck(fSize, cSize) ==
  IF cSize < MIN_CHUNK_SIZE \/ cSize > MAX_CHUNK_SIZE
  THEN "Default chunk size is out of range. Must be between 320 KB and 50 MB. chunkSize: "
       \o IntToString(cSize)
  ELSE IF cSize % MIN_CHUNK_SIZE # 0
  THEN "Default chunk size is not a multiple of minimum chunk size. Must be a multiple of 320 KB. chunkSize: "
       \o IntToString(cSize)
  ELSE ""

\* The three precondition checks, in the code's order: the message of the
\* Error thrown, "" when none is.
ChunkSizeError(fSize, cSize) ==
  IF cSize < MIN_CHUNK_SIZE \/ cSize > MAX_CHUNK_SIZE
  THEN "Default chunk size is out of range. Must be between 320 KB and 50 MB. chunkSize: "
       \o IntToString(cSize)
  ELSE IF cSize % MIN_CHUNK_SIZE # 0
  THEN "Default chunk size is not a multiple of minimum chunk size. Must be a multiple of 320 KB. chunkSize: "
       \o IntToString(cSize)
  ELSE IF fSize < cSize
  THEN "File size is smaller than chunk size. fileSize: " \o IntToString(fSize)
       \o ", chunkSize: " \o IntToString(cSize)
  ELSE ""

\* !Array.isArray(session.nextExpectedRanges) || length === 0
HasNoExpectedRanges(session) ==
  \/ ~session.nextExpectedRanges.isArray
  \/ Len(session.nextExpectedRanges.items) = 0

\* The range returned when the session expects nothing, with end one too far.
FirstChunkRange_EndOffByOne(cSize) == Returned(Num(0), Num(cSize), Num(cSize))

\* return { start: 0, end: chunkSize - 1, chunkSize }
FirstChunkRange(cSize) == Returned(Num(0), Num(cSize - 1), Num(cSize))

\* ParseExpectedRange with an open end counted from 0 instead of from start.
ParseExpectedRange_OpenEndFromZero(entry, cSize) ==
  LET parts    == Split(entry, "-")
      startStr == parts[1]
      hasEnd   == Len(parts) >= 2
      endStr   == IF hasEnd THEN parts[2] ELSE ""
      start    == IF startStr # "" THEN ToNumber(startStr) ELSE Num(0)
      end      == IF hasEnd /\ endStr # "" /\ Trim(endStr) # ""
                  THEN ToNumber(endStr)
                  ELSE Num(cSize - 1)
  IN [start |-> start, end |-> end]

\* const [startStr, endStr] = nextExpectedRange.split("-") and the two
\* conversions that follow it.
ParseExpectedRange(entry, cSize) ==
  LET parts    == Split(entry, "-")
      startStr == parts[1]
      hasEnd   == Len(parts) >= 2
      endStr   == IF hasEnd THEN parts[2] ELSE ""
      start    == IF startStr # "" THEN ToNumber(startStr) ELSE Num(0)
      end      == IF hasEnd /\ endStr # "" /\ Trim(endStr) # ""
                  THEN ToNumber(endStr)
                  ELSE NumAdd(start, Num(cSize - 1))
  IN [start |-> start, end |-> end]

\* ClampEnd without the clamp to the end of the file.
ClampEnd_NoFileClamp(start, end, cSize, fSize) ==
  MathMin(end, NumAdd(start, Num(cSize - 1)))

\* end = Math.min(end, start + chunkSize - 1); end = Math.min(end, fileSize - 1)
ClampEnd(start, end, cSize, fSize) ==
  MathMin(MathMin(end, NumAdd(start, Num(cSize - 1))), Num(fSize - 1))

calculateBytesRange(fSize, cSize, session) ==
  LET msg == ChunkSizeError(fSize, cSize) IN
  IF msg # "" THEN Thrown(MkError(msg, 0, FALSE))
  ELSE IF HasNoExpectedRanges(session)
  THEN FirstChunkRange(cSize)
  ELSE LET p   == ParseExpectedRange(session.nextExpectedRanges.items[1], cSize)
           end == ClampEnd(p.start, p.end, cSize, fSize)
       IN Returned(p.start, end, NumAdd(NumSub(end, p.start), Num(1)))

(***************************************************************************)
(* GraphClient.retryWithBackoff                                            *)
(***************************************************************************)

UpperCase == "ABCDEFGHIJKLMNOPQRSTUVWXYZ"

LowerCase == "abcdefghijklmnopqrstuvwxyz"

\* The lower-case form of a character (the /i flag of the status pattern).
ToLowerChar(c) ==
  IF \E i \in 1..26 : CharAt(UpperCase, i) = c
  THEN CharAt(LowerCase, CHOOSE i \in 1..26 : CharAt(UpperCase, i) = c)
  ELSE c

RECURSIVE ToLower(_)
ToLower(s) == IF Len(s) = 0 THEN ""
              ELSE ToLowerChar(CharAt(s, 1)) \o ToLower(SubSeq(s, 2, Len(s)))

\* The length of the longest run of characters of one class that starts at
\* position i of s; the class is "sep" ([:\s]) or "digit" (\d).
InClass(c, class) == IF class = "sep" THEN c = ":" \/ IsSpace(c) ELSE IsDigit(c)

RECURSIVE RunLength(_, _, _)
RunLength(s, i, class) ==
  IF i <= Len(s) /\ InClass(CharAt(s, i), class)
  THEN 1 + RunLength(s, i + 1, class) ELSE 0

\* error.message.match(/status[:\s]+(\d+)/i) and parseInt(statusMatch[1], 10):
\* the leftmost "status" (any case) followed by one or more of ':' and white
\* space and then by digits; found is FALSE when the pattern matches nowhere.
StatusMatch(msg) ==
  LET low  == ToLower(msg)
      hits == {i \in 1..(Len(msg) - 5) :
                 /\ SubSeq(low, i, i + 5) = "status"
                 /\ RunLength(msg, i + 6, "sep") >= 1
                 /\ RunLength(msg, i + 6 + RunLength(msg, i + 6, "sep"), "digit") >= 1}
  IN IF hits = {} THEN [found |-> FALSE, status |-> 0]
     ELSE LET i == CHOOSE h \in hits : \A j \in hits : h <= j
              d == i + 6 + RunLength(msg, i + 6, "sep")
          IN [found |-> TRUE,
              status |-> DecimalValue(SubSeq(msg, d, d + RunLength(msg, d, "digit") - 1))]

\* isRetryableStatus without 500 in the list.
isRetryableStatus_No500(status) == status \in {429, 502, 503, 504}

\* isRetryableStatus without 503.
isRetryableStatus_No503(status) == status \in {429, 500, 502, 504}

isRetryableStatus(status) == status \in {429, 500, 502, 503, 504}

\* The classification with the attached status tested before the tag and
\* the message.
IsRetryable_StatusFirst(error) ==
  IF ~error.isError THEN FALSE
  ELSE IF error.status # 0 THEN isRetryableStatus(error.status)
  ELSE IF error.isNetworkError THEN TRUE
  ELSE IF \/ Includes(error.message, "fetch")
          \/ Includes(error.message, "network")
          \/ Includes(error.message, "ECONNRESET")
          \/ Includes(error.message, "ETIMEDOUT")
       THEN TRUE
  ELSE LET m == StatusMatch(error.message) IN
       IF m.found THEN isRetryableStatus(m.status) ELSE FALSE

\* The classification without the fallback that reads the message.
IsRetryable_NoFallback(error) ==
  IF ~error.isError THEN FALSE
  ELSE IF error.isNetworkError THEN TRUE
  ELSE IF \/ Includes(error.message, "fetch")
          \/ Includes(error.message, "network")
          \/ Includes(error.message, "ECONNRESET")
          \/ Includes(error.message, "ETIMEDOUT")
       THEN TRUE
  ELSE IF error.status # 0 THEN isRetryableStatus(error.status)
  ELSE FALSE

\* The classification of a caught error (isRetryable after the if-chain).
IsRetryable(error) ==
  IF ~error.isError THEN FALSE
  ELSE IF error.isNetworkError THEN TRUE
  ELSE IF \/ Includes(error.message, "fetch")
          \/ Includes(error.message, "network")
          \/ Includes(error.message, "ECONNRESET")
          \/ Includes(error.message, "ETIMEDOUT")
       THEN TRUE
  ELSE IF error.status # 0 THEN isRetryableStatus(error.status)
  ELSE LET m == StatusMatch(error.message) IN
       IF m.found THEN isRetryableStatus(m.status) ELSE FALSE

\* Math.random() takes one of the values r / JitterSteps, r < JitterSteps.
JitterSteps == 3

\* jitter = Math.random() * 0.3 * delay, in whole milliseconds.
Jitter(d, r) == (3 * d * r) \div (10 * JitterSteps)

\* backoffDelay without the cap at maxDelay.
BackoffDelay_NoCap(d, r, cap) == d + Jitter(d, r)

\* backoffDelay = Math.min(delay + jitter, maxDelay)
BackoffDelay(d, r, cap) == IF d + Jitter(d, r) <= cap THEN d + Jitter(d, r) ELSE cap

\* The outcome of one call of fn: a value, or a thrown error.
Resolved(value) == [ok |-> TRUE, value |-> value, error |-> NoError]

NoValue == [tag |-> "none"]

Rejected(err) == [ok |-> FALSE, value |-> NoValue, error |-> err]

\* retryWithBackoff entered with the attempt counter left where the call
\* before it ended.
RetryEnter_KeepsAttempt(mr, d0, cap) ==
  /\ maxRetries' = mr /\ initialDelay' = d0 /\ maxDelay' = cap
  /\ attempt' = attempt /\ delay' = d0 /\ lastError' = NoError
  /\ history' = <<>> /\ sleepCount' = 0 /\ backoffDelay' = 0
  /\ IF attempt <= mr
     THEN rpc' = "calling" /\ calls' = 1 /\ retResult' = <<>>
     ELSE rpc' = "threw" /\ calls' = 0 /\ retResult' = <<Rejected(NoError)>>

\* retryWithBackoff is entered: delay = initialDelay, attempt = 0, and fn is
\* called if the loop condition holds; with no iteration at all the function
\* ends in `throw lastError` with lastError undefined.
RetryEnter(mr, d0, cap) ==
  /\ maxRetries' = mr /\ initialDelay' = d0 /\ maxDelay' = cap
  /\ attempt' = 0 /\ delay' = d0 /\ lastError' = NoError
  /\ history' = <<>> /\ sleepCount' = 0 /\ backoffDelay' = 0
  /\ IF 0 <= mr
     THEN rpc' = "calling" /\ calls' = 1 /\ retResult' = <<>>
     ELSE rpc' = "threw" /\ calls' = 0 /\ retResult' = <<Rejected(NoError)>>

\* `return await fn()` with fn resolved.
RetryOnResolve(value) ==
  /\ rpc = "calling"
  /\ rpc' = "returned"
  /\ retResult' = <<Resolved(value)>>
  /\ history' = Append(history, Resolved(value))
  /\ UNCHANGED <<maxRetries, initialDelay, maxDelay, attempt, delay, lastError,
                 calls, sleepCount, backoffDelay>>

\* The catch block's decision without the test for the last attempt.
GivesUp_NoLastAttemptTest(att, mr, err) == ~IsRetryable(err)

\* The catch block's decision to stop: `if (attempt === maxRetries) break`,
\* then `if (!isRetryable) throw error`.
GivesUp(att, mr, err) == att = mr \/ ~IsRetryable(err)

\* The catch block: fn threw err. r is the draw of Math.random().
RetryOnReject(err, r) ==
  /\ rpc = "calling"
  /\ lastError' = err
  /\ history' = Append(history, Rejected(err))
  /\ IF GivesUp(attempt, maxRetries, err)
     THEN /\ rpc' = "threw"
          /\ retResult' = <<Rejected(err)>>
          /\ UNCHANGED <<sleepCount, backoffDelay>>
     ELSE /\ rpc' = "sleeping"
          /\ backoffDelay' = BackoffDelay(delay, r, maxDelay)
          /\ sleepCount' = sleepCount + 1
          /\ UNCHANGED retResult
  /\ UNCHANGED <<maxRetries, initialDelay, maxDelay, attempt, delay, calls>>

\* The sleep is over: delay doubles up to maxDelay, attempt++, and the loop
\* calls fn again if attempt <= maxRetries.
RetryWake ==
  /\ rpc = "sleeping"
  /\ delay' = (IF delay * 2 <= maxDelay THEN delay * 2 ELSE maxDelay)
  /\ attempt' = attempt + 1
  /\ IF attempt + 1 <= maxRetries
     THEN rpc' = "calling" /\ calls' = calls + 1 /\ retResult' = retResult
     ELSE rpc' = "threw" /\ calls' = calls /\ retResult' = <<Rejected(lastError)>>
  /\ UNCHANGED <<maxRetries, initialDelay, maxDelay, lastError, history,
                 sleepCount, backoffDelay>>

(***************************************************************************)
(* Idle values: what a specification leaves the other components at        *)
(***************************************************************************)

IdleSession == MkSession("", NotAnArray)

IdleRange == /\ rFileSize = 0 /\ rChunkSize = 0
             /\ rSession = IdleSession /\ rResult = <<>>

IdleRetry == /\ maxRetries = 0 /\ initialDelay = 0 /\ maxDelay = 0
             /\ attempt = 0 /\ delay = 0 /\ lastError = NoError
             /\ rpc = "idle" /\ retResult = <<>>
             /\ history = <<>> /\ calls = 0
             /\ sleepCount = 0 /\ backoffDelay = 0

IdleEngine == /\ epc = "idle" /\ fileSize = 0 /\ uploadUrl = ""
              /\ eMaxRetries = 0
              /\ currentSession = IdleSession /\ range = <<>> /\ iter = 0
              /\ inflight = {} /\ putCount = 0 /\ lastPut = <<>>
              /\ response = <<>> /\ progressCount = 0 /\ progress = <<>>
              /\ engineResult = <<>>

IdleQueue == /\ queue = <<>> /\ maxConcurrency = 0 /\ successCount = 0
             /\ failCount = 0 /\ totalFiles = 0 /\ running = 0
             /\ taskState = <<>> /\ taskKind = <<>> /\ started = <<>>
             /\ added = 0
             /\ unhandled = 0 /\ wpc = "idle" /\ wsnap = <<>>

IdleToken == /\ tokenPromise = 0 /\ outstanding = {} /\ tokenOutcome = <<>>
             /\ callerPromise = <<>> /\ callerResult = <<>>

IdleUpload == /\ hpc = "idle" /\ hBatch = FALSE /\ hFileSize = 0
              /\ flakyChunk = 0 /\ sessionCalls = 0 /\ directPuts = 0
              /\ hResult = <<>> /\ failedCount = 0

(***************************************************************************)
(* SpecRange: calculateBytesRange applied to one input                     *)
(***************************************************************************)

RangeChunkSizes == {0, 327679, 327680, 327681, 655360, 5242880,
                    52428800, 52428801, 52756480}

RangeFileSizes == {0, 327680, 655359, 5242880, 12582912, 52428800, 60000000}

\* Byte offsets a server may name in an expected range.
Offsets == {0, 1000, 327680, 5242880, 10485760, 12582911, 12582912, 70000000}

\* The expected-range strings tried: "s-e", "s-", "-e" for the offsets, and
\* strings of other shapes.
RangeEntries ==
     {NatToString(a) \o "-" \o NatToString(b) : a \in Offsets, b \in Offsets}
  \cup {NatToString(a) \o "-" : a \in Offsets}
  \cup {"-" \o NatToString(b) : b \in Offsets}
  \cup {NatToString(a) \o "- " : a \in Offsets}
  \cup {"", "-", "1000", " 1000-", "1000 -2000", "?-5", "5-?", "10-5-3", " -7"}

RangeSessions ==
     {MkSession("u", NotAnArray), MkSession("u", Ranges(<<>>))}
  \cup {MkSession("u", Ranges(<<e>>)) : e \in RangeEntries}
  \cup {MkSession("u", Ranges(<<e, "0-">>)) : e \in RangeEntries}

InitRange == /\ rFileSize \in RangeFileSizes
             /\ rChunkSize \in RangeChunkSizes
             /\ rSession \in RangeSessions
             /\ rResult = <<>>
             /\ IdleRetry /\ IdleEngine /\ IdleQueue
             /\ IdleToken /\ IdleUpload

\* One call of calculateBytesRange.
CalcRange == /\ rResult = <<>>
             /\ rResult' = <<calculateBytesRange(rFileSize, rChunkSize, rSession)>>
             /\ UNCHANGED <<rFileSize, rChunkSize, rSession>>
             /\ UNCHANGED <<retryVars, engineVars, queueVars, tokenVars, uploadVars>>

NextRange == CalcRange

SpecRange == InitRange /\ [][NextRange]_vars

(***************************************************************************)
(* Properties of calculateBytesRange (checked under SpecRange)             *)
(***************************************************************************)

\* The preconditions of the byte-range computation, in bytes.
ValidSizes == /\ rChunkSize >= 327680
              /\ rChunkSize <= 52428800
              /\ rChunkSize % 327680 = 0
              /\ rFileSize >= rChunkSize

CountChar(s, c) == Cardinality({i \in 1..Len(s) : CharAt(s, i) = c})

\* "s-e", "s-" or "-e": decimal digits around exactly one dash.
IsRangeForm(e) ==
  /\ Len(e) >= 2
  /\ CountChar(e, "-") = 1
  /\ \A i \in 1..Len(e) : CharAt(e, i) = "-" \/ IsDigit(CharAt(e, i))

RangeCalled == rResult # <<>>

NoRangesGiven == \/ ~rSession.nextExpectedRanges.isArray
                 \/ rSession.nextExpectedRanges.items = <<>>

FirstEntry == rSession.nextExpectedRanges.items[1]

MinOf(a, b) == IF a <= b THEN a ELSE b

\* C5: for a valid chunk size, a file of at least one chunk and a session
\* with no expected ranges or a first entry "s-e", "s-" or "-e", the range
\* returned has end - start + 1 <= chunkSize, end <= fileSize - 1 and a
\* reported size of end - start + 1.
C5_RangeWithinChunkAndFile ==
  (RangeCalled /\ ValidSizes /\ (NoRangesGiven \/ IsRangeForm(FirstEntry))) =>
    LET r == rResult[1] IN
      /\ ~r.threw
      /\ ~r.start.nan /\ ~r.end.nan /\ ~r.chunkSize.nan
      /\ r.end.v - r.start.v + 1 <= rChunkSize
      /\ r.end.v <= rFileSize - 1
      /\ r.chunkSize.v = r.end.v - r.start.v + 1

\* A final, short chunk: the end was clamped to the last byte of the file.
C5_Witness ==
  /\ RangeCalled /\ ValidSizes /\ ~NoRangesGiven /\ IsRangeForm(FirstEntry)
  /\ ~rResult[1].threw
  /\ rResult[1].start.v > 0
  /\ rResult[1].end.v = rFileSize - 1
  /\ rResult[1].chunkSize.v > 0
  /\ rResult[1].chunkSize.v < rChunkSize

\* C6: calculateBytesRange throws, and returns no range, exactly when
\* chunkSize < 327680, chunkSize > 52428800, chunkSize is no multiple of
\* 327680, or fileSize < chunkSize.
C6_ThrowsIffPreconditionViolated ==
  RangeCalled =>
    /\ rResult[1].threw <=> ~ValidSizes
    /\ rResult[1].threw => /\ rResult[1].error.isError
                           /\ rResult[1].start.nan /\ rResult[1].end.nan

\* A chunk size inside the bounds that is no multiple of 320 KiB is refused.
C6_Witness ==
  /\ RangeCalled /\ rResult[1].threw
  /\ rChunkSize > 327680 /\ rChunkSize < 52428800
  /\ rChunkSize % 327680 # 0
  /\ rFileSize >= rChunkSize

\* C7: with no expected ranges (field not an array, or empty) and valid
\* sizes the range is exactly start = 0, end = chunkSize - 1,
\* size = chunkSize.
C7_NoRangesStartsAtZero ==
  (RangeCalled /\ ValidSizes /\ NoRangesGiven) =>
    /\ ~rResult[1].threw
    /\ rResult[1].start = Num(0)
    /\ rResult[1].end = Num(rChunkSize - 1)
    /\ rResult[1].chunkSize = Num(rChunkSize)

C7_Witness ==
  /\ RangeCalled /\ ValidSizes
  /\ rSession.nextExpectedRanges.isArray
  /\ rSession.nextExpectedRanges.items = <<>>
  /\ rResult[1].start = Num(0)
  /\ rResult[1].end.v = 5242879

\* C8: a first entry with an open end, "s-" (end missing or blank), gives
\* start = s and end = min(s + chunkSize - 1, fileSize - 1); an entry with
\* a missing start gives start = 0.
C8_OpenEndedRange ==
  (RangeCalled /\ ValidSizes /\ ~NoRangesGiven) =>
    /\ \A a \in Offsets :
         FirstEntry \in {NatToString(a) \o "-", NatToString(a) \o "- "} =>
           /\ ~rResult[1].threw
           /\ rResult[1].start = Num(a)
           /\ rResult[1].end = Num(MinOf(a + rChunkSize - 1, rFileSize - 1))
    /\ \A b \in Offsets :
         FirstEntry \in {"-" \o NatToString(b), "-"} =>
           /\ ~rResult[1].threw
           /\ rResult[1].start = Num(0)

\* "1000-" with a 5 MiB chunk: the end is 1000 + 5242880 - 1.
C8_Witness ==
  /\ RangeCalled /\ ValidSizes /\ ~NoRangesGiven
  /\ FirstEntry = "1000-"
  /\ rChunkSize = 5242880
  /\ rResult[1].start = Num(1000)
  /\ rResult[1].end = Num(5243879)

(***************************************************************************)
(* UploadQueue                                                             *)
(***************************************************************************)

\* Most tasks added to one queue, and the largest concurrency ceiling tried.
MaxTasks == 5

MaxConc == 3

\* A task function is async (its promise settles in a later step) or
\* throws synchronously when called.
TaskKinds == {"async", "throws"}

\* The fields of the queue that add() and a completion may change.
QueueState == [queue |-> queue, running |-> running,
               successCount |-> successCount, failCount |-> failCount,
               taskState |-> taskState, taskKind |-> taskKind,
               started |-> started, unhandled |-> unhandled]

Commit(st) == /\ queue' = st.queue
              /\ running' = st.running
              /\ successCount' = st.successCount
              /\ failCount' = st.failCount
              /\ taskState' = st.taskState
              /\ taskKind' = st.taskKind
              /\ started' = st.started
              /\ unhandled' = st.unhandled

\* The loop condition of process() keeping one slot free.
CanAdmit_LeavesSlotFree(st) ==
  st.running + 1 < maxConcurrency /\ Len(st.queue) > 0

\* The loop condition of process() with <= for <.
CanAdmit_OffByOne(st) == st.running <= maxConcurrency /\ Len(st.queue) > 0

\* this.running < this.maxConcurrency && this.queue.length > 0
CanAdmit(st) == st.running < maxConcurrency /\ Len(st.queue) > 0

\* The wrapper's try / finally with the catch block left out: a failure is
\* not counted and leaves the wrapper as an unhandled rejection.
OnSettled_NoCatch(st, task, ok) ==
  [st EXCEPT !.successCount = IF ok THEN @ + 1 ELSE @,
             !.unhandled    = IF ok THEN @ ELSE @ + 1,
             !.running      = @ - 1,
             !.taskState[task] = IF ok THEN "success" ELSE "failed"]

\* The wrapper with successCount++ moved into the finally block: a failure
\* is counted on both sides.
OnSettled_SuccessInFinally(st, task, ok) ==
  [st EXCEPT !.successCount = @ + 1,
             !.failCount    = IF ok THEN @ ELSE @ + 1,
             !.running      = @ - 1,
             !.taskState[task] = IF ok THEN "success" ELSE "failed"]

\* The wrapper's try / catch / finally once `await task()` has settled, up
\* to the call of process(): one counter incremented, the error absorbed by
\* the catch block, the slot released.
OnSettled(st, task, ok) ==
  [st EXCEPT !.successCount = IF ok THEN @ + 1 ELSE @,
             !.failCount    = IF ok THEN @ ELSE @ + 1,
             !.running      = @ - 1,
             !.taskState[task] = IF ok THEN "success" ELSE "failed"]

\* process() starting the first task of the backlog but dropping the last
\* one: this.queue[0] with this.queue.pop() for this.queue.shift().
RECURSIVE process_Peek(_)
process_Peek(st) ==
  IF CanAdmit(st)
  THEN LET task == Head(st.queue)
           s1   == [st EXCEPT !.queue = SubSeq(@, 1, Len(@) - 1),
                              !.running = @ + 1,
                              !.started = Append(@, task),
                              !.taskState[task] = "running"]
       IN IF st.taskKind[task] = "throws"
          THEN process_Peek(process_Peek(OnSettled(s1, task, FALSE)))
          ELSE process_Peek(s1)
  ELSE st

\* process() taking the task added last: this.queue.pop() for shift().
RECURSIVE process_Pop(_)
process_Pop(st) ==
  IF CanAdmit(st)
  THEN LET task == st.queue[Len(st.queue)]
           s1   == [st EXCEPT !.queue = SubSeq(@, 1, Len(@) - 1),
                              !.running = @ + 1,
                              !.started = Append(@, task),
                              !.taskState[task] = "running"]
       IN IF st.taskKind[task] = "throws"
          THEN process_Pop(process_Pop(OnSettled(s1, task, FALSE)))
          ELSE process_Pop(s1)
  ELSE st

\* process(): admit backlog tasks while there is capacity. The body of an
\* admitted task starts inside the loop; one that throws synchronously is
\* caught there and then, and its finally block calls process() again before
\* the loop goes on.
RECURSIVE process(_)
process(st) ==
  IF CanAdmit(st)
  THEN LET task == Head(st.queue)
           s1   == [st EXCEPT !.queue = Tail(@), !.running = @ + 1,
                              !.started = Append(@, task),
                              !.taskState[task] = "running"]
       IN IF st.taskKind[task] = "throws"
          THEN process(process(OnSettled(s1, task, FALSE)))
          ELSE process(s1)
  ELSE st

\* while (this.queue.length > 0) : the loop condition of waitForCompletion
\* without the running count.
StillBusy_BacklogOnly == Len(queue) > 0

\* this.queue.length > 0 || this.running > 0
StillBusy == Len(queue) > 0 \/ running > 0

\* What the caller of waitForCompletion() finds when it returns: getStats()
\* and the queue's private fields at that moment.
Snapshot == [success |-> successCount, failed |-> failCount, total |-> totalFiles,
             backlog |-> Len(queue), running |-> running, added |-> added,
             taskState |-> taskState]

InitQueue == /\ queue = <<>>
             /\ maxConcurrency \in 0..MaxConc
             /\ totalFiles \in {0, MaxTasks}
             /\ successCount = 0 /\ failCount = 0 /\ running = 0
             /\ taskState = <<>> /\ taskKind = <<>> /\ started = <<>>
             /\ added = 0 /\ unhandled = 0
             /\ wpc = "idle" /\ wsnap = <<>>
             /\ IdleRange /\ IdleRetry /\ IdleEngine
             /\ IdleToken /\ IdleUpload

\* add(task): push, then process().
Add(kind) ==
  /\ added < MaxTasks
  /\ added' = added + 1
  /\ Commit(process([QueueState EXCEPT !.queue = Append(@, added + 1),
                                       !.taskState = Append(@, "pending"),
                                       !.taskKind = Append(@, kind)]))
  /\ UNCHANGED <<maxConcurrency, totalFiles, wpc, wsnap>>
  /\ UNCHANGED <<rangeVars, retryVars, engineVars, tokenVars, uploadVars>>

\* The promise of a running task settles: the rest of the wrapper runs, then
\* process().
SettleTask(task, ok) ==
  /\ task \in 1..added
  /\ taskState[task] = "running"
  /\ Commit(process(OnSettled(QueueState, task, ok)))
  /\ UNCHANGED <<added, maxConcurrency, totalFiles, wpc, wsnap>>

TaskSettles(task, ok) ==
  /\ SettleTask(task, ok)
  /\ UNCHANGED <<rangeVars, retryVars, engineVars, tokenVars, uploadVars>>

TaskResolves(task) == TaskSettles(task, TRUE)

TaskRejects(task) == TaskSettles(task, FALSE)

\* One evaluation of the loop condition of waitForCompletion(): return, or
\* sleep 50 ms.
WaitCheck ==
  IF StillBusy
  THEN wpc' = "sleeping" /\ wsnap' = wsnap
  ELSE wpc' = "returned" /\ wsnap' = <<Snapshot>>

\* waitForCompletion() is called: the condition is evaluated at once.
WaitCall ==
  /\ wpc = "idle"
  /\ WaitCheck
  /\ UNCHANGED <<queue, maxConcurrency, successCount, failCount, totalFiles,
                 running, taskState, taskKind, started, added, unhandled>>
  /\ UNCHANGED <<rangeVars, retryVars, engineVars, tokenVars, uploadVars>>

\* The 50 ms timer fires: the condition is evaluated again.
WaitPoll ==
  /\ wpc = "sleeping"
  /\ WaitCheck
  /\ UNCHANGED <<queue, maxConcurrency, successCount, failCount, totalFiles,
                 running, taskState, taskKind, started, added, unhandled>>
  /\ UNCHANGED <<rangeVars, retryVars, engineVars, tokenVars, uploadVars>>

NextQueue ==
  \/ \E kind \in TaskKinds : Add(kind)
  \/ \E task \in 1..MaxTasks : TaskResolves(task)
  \/ \E task \in 1..MaxTasks : TaskRejects(task)
  \/ WaitCall
  \/ WaitPoll

SpecQueue == InitQueue /\ [][NextQueue]_vars

\* The queue with tasks that settle and timers that fire: while a task
\* runs, the promise of some running task eventually settles, and the
\* 50 ms timer of waitForCompletion() eventually fires.
FairQueue ==
  /\ WF_vars(\E task \in 1..MaxTasks : TaskResolves(task) \/ TaskRejects(task))
  /\ WF_vars(WaitPoll)

\* Most tasks added where progress is checked.
LiveTasks == 3

\* add(task), for the first LiveTasks tasks.
AddLive(kind) == added < LiveTasks /\ Add(kind)

NextQueueLive ==
  \/ \E kind \in TaskKinds : AddLive(kind)
  \/ \E task \in 1..LiveTasks : TaskResolves(task)
  \/ \E task \in 1..LiveTasks : TaskRejects(task)
  \/ WaitCall
  \/ WaitPoll

SpecQueueLive == InitQueue /\ [][NextQueueLive]_vars /\ FairQueue

(***************************************************************************)
(* Properties of UploadQueue (checked under SpecQueue)                     *)
(***************************************************************************)

\* The tasks whose body has started and whose promise has not settled.
RunningTasks == {t \in 1..added : taskState[t] = "running"}

\* C1: with maxConcurrency = N, whatever the add() calls and completions,
\* the number of tasks started and not yet settled is never greater than N.
C1_AtMostNRunning ==
  /\ Cardinality(RunningTasks) <= maxConcurrency
  /\ running = Cardinality(RunningTasks)

\* Two slots, both busy, and a backlog waiting behind them.
C1_Witness ==
  /\ maxConcurrency = 2
  /\ Cardinality(RunningTasks) = 2
  /\ Len(queue) >= 2
  /\ failCount >= 1

\* C2: waitForCompletion() returns only when the backlog is empty and
\* nothing is running; then success + failed is the number of tasks
\* submitted before it returned (and total, when totalFiles is that number),
\* and no submitted task is pending or running.
C2_ReturnsOnlyWhenDrained ==
  wpc = "returned" =>
    LET w == wsnap[1] IN
      /\ w.backlog = 0
      /\ w.running = 0
      /\ w.success + w.failed = w.added
      /\ \A t \in 1..w.added : w.taskState[t] \in {"success", "failed"}
      /\ w.total = w.added => w.success + w.failed = w.total

\* It returned after sleeping, with five tasks done, some of them failed.
C2_Witness ==
  /\ wpc = "returned"
  /\ wsnap[1].added = 5 /\ wsnap[1].total = 5
  /\ wsnap[1].failed >= 1 /\ wsnap[1].success >= 1
  /\ maxConcurrency = 2

NewlyFailed == {t \in 1..added' : /\ taskState'[t] = "failed"
                                  /\ (t > added \/ taskState[t] # "failed")}

NewlySucceeded == {t \in 1..added' : /\ taskState'[t] = "success"
                                     /\ (t > added \/ taskState[t] # "success")}

\* What one step in which some task fails does to the queue.
FailureStep ==
  NewlyFailed # {} =>
    \* counted once each, and as a failure only
    /\ failCount' = failCount + Cardinality(NewlyFailed)
    /\ successCount' = successCount + Cardinality(NewlySucceeded)
    \* the slot is released: running counts exactly the tasks in flight
    /\ running' = Cardinality({t \in 1..added' : taskState'[t] = "running"})
    \* nothing reaches the caller
    /\ unhandled' = unhandled
    \* the other tasks are untouched: one that was running or settled stays
    \* as it was, one in the backlog is still there or has been started
    /\ \A u \in (1..added) \ (NewlyFailed \cup NewlySucceeded) :
         /\ taskState[u] \in {"running", "success", "failed"}
              => taskState'[u] = taskState[u]
         /\ taskState[u] = "pending" =>
              \/ taskState'[u] = "running"
              \/ taskState'[u] = "pending"
                 /\ \E i \in 1..Len(queue') : queue'[i] = u
    \* and the pool goes on draining: a task waits only if every slot is busy
    /\ queue' # <<>> => running' = maxConcurrency

\* C3: a task that throws or rejects adds exactly one to failed, frees its
\* slot, propagates nothing to the caller of add() or waitForCompletion(),
\* and leaves every other task to be started and to run to its own end.
C3_FailureIsolated == [][FailureStep]_vars /\ [](unhandled = 0)

\* A failure freed a slot that the next backlog task took, beside a task
\* that goes on running and one that had succeeded.
C3_Witness ==
  /\ maxConcurrency = 2
  /\ failCount = 1 /\ successCount = 1
  /\ added = 5
  /\ Cardinality(RunningTasks) = 2
  /\ Len(queue) = 1
  /\ taskState[2] = "failed" /\ taskState[1] = "running" /\ taskState[4] = "running"

(***************************************************************************)
(* SpecRetry: one invocation of retryWithBackoff around an operation whose *)
(* every call may resolve or throw any of RetryErrors                      *)
(***************************************************************************)

\* Largest maxRetries tried.
MaxRetriesN == 3

\* (initialDelay, maxDelay): the values both upload paths pass, and a cap
\* low enough to be reached within the retries tried, also by the first delay.
DelayPairs == {<<1000, 30000>>, <<1000, 3000>>, <<5000, 3000>>}

\* HTTP errors as the two upload paths build them (status attached).
HttpError(status, text, body) ==
  MkError("Failed to upload chunk: " \o NatToString(status) \o " " \o text
          \o "\n" \o body, status, FALSE)

RetryErrors == {
  HttpError(503, "Service Unavailable", ""),
  HttpError(429, "Too Many Requests", "{\"error\":{\"code\":\"activityLimitReached\"}}"),
  HttpError(500, "Internal Server Error", ""),
  HttpError(400, "Bad Request", "{\"error\":{\"code\":\"invalidRequest\"}}"),
  HttpError(404, "Not Found", "{\"error\":{\"message\":\"The upload session was not found\"}}"),
  HttpError(400, "Bad Request", "{\"error\":{\"message\":\"The network name cannot be found\"}}"),
  HttpError(401, "Unauthorized", "{\"error\":{\"message\":\"Unable to fetch token\"}}"),
  MkError("Network error during chunk upload: socket hang up", 0, TRUE),
  MkError("Request aborted", 404, TRUE),
  MkError("read ECONNRESET", 0, FALSE),
  MkError("Request failed with status: 503", 0, FALSE),
  MkError("Request failed with Status 404", 0, FALSE),
  MkError("Failed to create upload session: 503 Service Unavailable", 0, FALSE),
  MkError("Upload URL is not set", 0, FALSE),
  [isError |-> FALSE, isNetworkError |-> FALSE, status |-> 503,
   message |-> "fetch failed"] }

InitRetry == /\ IdleRange /\ IdleRetry /\ IdleEngine /\ IdleQueue
             /\ IdleToken /\ IdleUpload

\* retryWithBackoff(fn, maxRetries, initialDelay, maxDelay) is called.
RetryCall ==
  /\ rpc = "idle"
  /\ \E mr \in 0..MaxRetriesN, dp \in DelayPairs : RetryEnter(mr, dp[1], dp[2])
  /\ UNCHANGED <<rangeVars, engineVars, queueVars, tokenVars, uploadVars>>

\* fn() resolves.
FnResolves ==
  /\ RetryOnResolve([tag |-> "result"])
  /\ UNCHANGED <<rangeVars, engineVars, queueVars, tokenVars, uploadVars>>

\* fn() throws.
FnRejects ==
  /\ \E err \in RetryErrors, r \in 0..(JitterSteps - 1) : RetryOnReject(err, r)
  /\ UNCHANGED <<rangeVars, engineVars, queueVars, tokenVars, uploadVars>>

\* The timer of sleep(backoffDelay) fires.
SleepEnds ==
  /\ RetryWake
  /\ UNCHANGED <<rangeVars, engineVars, queueVars, tokenVars, uploadVars>>

NextRetry == RetryCall \/ FnResolves \/ FnRejects \/ SleepEnds

SpecRetry == InitRetry /\ [][NextRetry]_vars

(***************************************************************************)
(* Properties of retryWithBackoff (checked under SpecRetry)                *)
(***************************************************************************)

RetryableStatuses == {429, 500, 502, 503, 504}

\* A failure with an HTTP status attached to an Error object.
IsHttpFailure(o) == ~o.ok /\ o.error.isError /\ o.error.status # 0

FailedRetryably(o) == IsHttpFailure(o) /\ o.error.status \in RetryableStatuses

FailedFatally(o) == IsHttpFailure(o) /\ o.error.status \notin RetryableStatuses

\* C9: an operation that fails with a retryable status (an Error with the
\* status attached) maxRetries times and then succeeds makes retryWithBackoff
\* return the success result after exactly maxRetries + 1 calls; while the
\* failures are of that kind and budget is left no error reaches the caller.
C9_RetryableThenSuccess ==
  rpc # "idle" =>
    /\ (/\ Len(history) <= maxRetries
        /\ \A i \in 1..Len(history) : FailedRetryably(history[i]))
         => rpc \in {"calling", "sleeping"}
    /\ (/\ Len(history) = maxRetries + 1
        /\ \A i \in 1..maxRetries : FailedRetryably(history[i])
        /\ history[maxRetries + 1].ok)
         => /\ rpc = "returned"
            /\ retResult = <<history[maxRetries + 1]>>
            /\ calls = maxRetries + 1

\* Three 503s, then the fourth call succeeds.
C9_Witness ==
  /\ rpc = "returned"
  /\ maxRetries = 3
  /\ Len(history) = 4
  /\ \A i \in 1..3 : ~history[i].ok /\ history[i].error.status = 503
  /\ history[4].ok
  /\ retResult = <<Resolved([tag |-> "result"])>>
  /\ sleepCount = 3

\* C10: a failure with an attached HTTP status outside {429, 500, 502, 503,
\* 504} is never retried, whatever the message says: no sleep follows and
\* that error is rethrown at once.
C10_FatalStatusNeverRetried ==
  [][(/\ rpc = "calling"
      /\ Len(history') = Len(history) + 1
      /\ FailedFatally(history'[Len(history')]))
       => /\ rpc' = "threw"
          /\ retResult' = <<history'[Len(history')]>>
          /\ sleepCount' = sleepCount]_vars

LastOutcome == history[Len(history)]

\* A step in which the call of the last allowed attempt fails.
LastAttemptFails ==
  /\ rpc = "calling" /\ attempt = maxRetries
  /\ Len(history') = Len(history) + 1
  /\ ~history'[Len(history')].ok

\* C11: the operation is called at most maxRetries + 1 times; when the
\* attempt with index maxRetries fails, no sleep and no further call follow,
\* whatever the error is, and the error thrown is that attempt's error value
\* itself (same status, network tag and message).
C11_LastAttemptNotRetried ==
  /\ [](rpc # "idle" => calls <= maxRetries + 1)
  /\ [][LastAttemptFails =>
          /\ rpc' = "threw"
          /\ retResult' = <<history'[Len(history')]>>
          /\ lastError' = history'[Len(history')].error
          /\ sleepCount' = sleepCount /\ calls' = calls]_vars
  /\ [][rpc = "threw" => (calls' = calls /\ sleepCount' = sleepCount
                          /\ retResult' = retResult)]_vars

\* The third of three allowed calls failed with a retryable 503, which is
\* what the caller gets.
C11_Witness ==
  /\ rpc = "threw" /\ maxRetries = 2 /\ calls = 3 /\ sleepCount = 2
  /\ Len(history) = 3
  /\ LastOutcome.error.status = 503 /\ LastOutcome.error.isError
  /\ retResult = <<LastOutcome>>

RECURSIVE Pow2(_)
Pow2(k) == IF k = 0 THEN 1 ELSE 2 * Pow2(k - 1)

\* C12: the wait after failed attempt k is at most maxDelay, at least
\* min(initialDelay * 2^k, maxDelay), and equals
\* min(initialDelay * 2^k + jitter, maxDelay) for a jitter between 0 and 30%
\* of the current delay.
C12_BackoffBounds ==
  rpc = "sleeping" =>
    LET base == initialDelay * Pow2(attempt) IN
      /\ backoffDelay <= maxDelay
      /\ backoffDelay >= MinOf(base, maxDelay)
      /\ delay = (IF attempt = 0 THEN initialDelay ELSE MinOf(base, maxDelay))
      /\ \E j \in 0..((3 * delay) \div 10) :
           backoffDelay = MinOf(base + j, maxDelay)

\* The third wait, 4000 ms before the cap, is cut to a maxDelay of 3000 ms.
C12_Witness ==
  /\ rpc = "sleeping" /\ attempt = 2
  /\ initialDelay = 1000 /\ maxDelay = 3000
  /\ backoffDelay = 3000 /\ sleepCount = 3

\* A step in which a call of fn that is not the last allowed one fails;
\* FailedWith is the value thrown.
EarlyFailure ==
  /\ rpc = "calling" /\ attempt < maxRetries
  /\ Len(history') = Len(history) + 1
  /\ ~history'[Len(history')].ok

FailedWith == history'[Len(history')].error

Retried == rpc' = "sleeping" /\ sleepCount' = sleepCount + 1 /\ retResult' = retResult

RethrownAtOnce ==
  /\ rpc' = "threw" /\ retResult' = <<history'[Len(history')]>>
  /\ sleepCount' = sleepCount /\ calls' = calls

TransientWords == {"fetch", "network", "ECONNRESET", "ETIMEDOUT"}

HasTransientWord(e) == \E w \in TransientWords : Includes(e.message, w)

\* C22: a thrown Error is classified by the first rule that matches, in the
\* order (1) network tag: retried; (2) message with "fetch", "network",
\* "ECONNRESET" or "ETIMEDOUT": retried; (3) attached status: retried iff it
\* is 429, 500, 502, 503 or 504. A later rule does not undo an earlier one.
C22_ClassificationOrder ==
  [][(EarlyFailure /\ FailedWith.isError) =>
       /\ FailedWith.isNetworkError => Retried
       /\ (~FailedWith.isNetworkError /\ HasTransientWord(FailedWith)) => Retried
       /\ (/\ ~FailedWith.isNetworkError /\ ~HasTransientWord(FailedWith)
           /\ FailedWith.status # 0)
            => IF FailedWith.status \in RetryableStatuses
               THEN Retried ELSE RethrownAtOnce]_vars

\* An error tagged as a network error is being retried although the status
\* attached to it is 404.
C22_Witness ==
  /\ rpc = "sleeping" /\ sleepCount = 1
  /\ lastError.isNetworkError /\ lastError.status = 404
  /\ ~HasTransientWord(lastError)

\* The status the pattern /status[:\s]+(\d+)/i finds in the messages tried,
\* 0 where it finds none.
EmbeddedStatus(msg) ==
  IF msg = "Request failed with status: 503" THEN 503
  ELSE IF msg = "Request failed with Status 404" THEN 404
  ELSE 0

\* C23: for an Error with no network tag, no transient word and no attached
\* status, the status found in the message decides: retried iff it is 429,
\* 500, 502, 503 or 504; with no status found, or for a thrown value that is
\* not an Error, the error is rethrown at once, with no sleep.
C23_StatusRecoveredFromMessage ==
  [][EarlyFailure =>
       /\ (/\ FailedWith.isError /\ ~FailedWith.isNetworkError
           /\ ~HasTransientWord(FailedWith) /\ FailedWith.status = 0)
            => IF EmbeddedStatus(FailedWith.message) \in RetryableStatuses
               THEN Retried ELSE RethrownAtOnce
       /\ ~FailedWith.isError => RethrownAtOnce]_vars

\* An error whose only trace of the status is the text "status: 503" is
\* being retried.
C23_Witness ==
  /\ rpc = "sleeping" /\ sleepCount = 1
  /\ lastError.message = "Request failed with status: 503"
  /\ lastError.status = 0 /\ ~lastError.isNetworkError

(***************************************************************************)
(* GraphClient.uploadFileToSession                                         *)
(***************************************************************************)

\* const chunkSize = 1024 * 1024 * 5
UPLOAD_CHUNK_SIZE == 1024 * 1024 * 5

\* Most iterations of the while loop followed, and the largest maxRetries
\* given to uploadFileToSession.
MaxIter == 3

MaxEngineRetries == 1

\* A DriveItem body.
DriveItem == [id |-> "item", uploadUrl |-> "", nextExpectedRanges |-> NotAnArray]

\* What fetch() settles with: a response (status, statusText, the body text
\* put into an error message, whether the body parses as JSON, and the
\* parsed value), or a rejection with no response.
HttpResponse(status, statusText, text, json, data) ==
  [net |-> FALSE, status |-> status, statusText |-> statusText, text |-> text,
   json |-> json, data |-> data]

NetworkFailure(msg) ==
  [net |-> TRUE, status |-> 0, statusText |-> "", text |-> msg,
   json |-> FALSE, data |-> IdleSession]

\* Response.ok
ResOk(resp) == resp.status >= 200 /\ resp.status <= 299

\* The Content-Range header written with an exclusive end.
ContentRange_EndExclusive(start, end, total) ==
  "bytes " \o NumToString(start) \o "-" \o NumToString(NumAdd(end, Num(1)))
           \o "/" \o IntToString(total)

\* `bytes ${start}-${end}/${fileSize}`
ContentRange(start, end, total) ==
  "bytes " \o NumToString(start) \o "-" \o NumToString(end) \o "/" \o IntToString(total)

\* The PUT request of one attempt: the headers, the target, and (for the
\* properties) the iteration and the session its range was computed from.
PutRequest(id, n, r, url, total, session) ==
  [id |-> id, iter |-> n, start |-> r.start, end |-> r.end,
   contentLength |-> NumToString(r.chunkSize),
   contentRange |-> ContentRange(r.start, r.end, total),
   url |-> url, session |-> session]

\* The answers a server may give to a PUT: the final item, a session that
\* expects the bytes after the chunk, one that expects nothing, one that did
\* not advance, a body that is no JSON, HTTP errors, or no answer at all.
ServerResponses(put) ==
  LET after == NumToString(NumAdd(put.end, Num(1)))
      last  == IntToString(fileSize - 1)
  IN {
    HttpResponse(200, "OK", "", TRUE, DriveItem),
    HttpResponse(201, "Created", "", TRUE, DriveItem),
    HttpResponse(202, "Accepted", "", TRUE, MkSession("", Ranges(<<after \o "-">>))),
    HttpResponse(202, "Accepted", "", TRUE,
                 MkSession("https://up/2", Ranges(<<after \o "-" \o last>>))),
    HttpResponse(202, "Accepted", "", TRUE, MkSession("", Ranges(<<>>))),
    HttpResponse(202, "Accepted", "", TRUE,
                 MkSession("", Ranges(<<NumToString(put.start) \o "-">>))),
    HttpResponse(202, "Accepted", "{}", TRUE, IdleSession),
    HttpResponse(202, "Accepted", "<html>", FALSE, IdleSession),
    HttpResponse(200, "OK", "<html>", FALSE, IdleSession),
    HttpResponse(500, "Internal Server Error", "", FALSE, IdleSession),
    HttpResponse(503, "Service Unavailable", "", FALSE, IdleSession),
    HttpResponse(400, "Bad Request", "{\"error\":{\"code\":\"invalidRequest\"}}",
                 TRUE, IdleSession),
    HttpResponse(400, "Bad Request",
                 "{\"error\":{\"message\":\"The network name cannot be found\"}}",
                 TRUE, IdleSession),
    HttpResponse(404, "Not Found", "", FALSE, IdleSession),
    NetworkFailure("socket hang up") }

\* The error the retried closure throws for a response that is not ok, or
\* for a rejected fetch: the inner catch rethrows an error with a status
\* and wraps anything else as a tagged network error.
PutError(resp) ==
  IF resp.net
  THEN MkError("Network error during chunk upload: " \o resp.text, 0, TRUE)
  ELSE HttpError(resp.status, resp.statusText, resp.text)

\* The arguments uploadFileToSession is tried with.
EngineFileSizes == {1048576, 5242880, 5242881, 10485760, 12582912}

EngineSessions == {MkSession("https://up/1", Ranges(<<"0-">>)),
                   MkSession("https://up/1", NotAnArray),
                   MkSession("", Ranges(<<"0-">>))}

\* The PUT sent to the uploadUrl of the current session.
SendPut_ToSessionUrl(r, n, session) ==
  /\ putCount' = putCount + 1
  /\ inflight' = inflight \cup {putCount + 1}
  /\ lastPut' = <<PutRequest(putCount + 1, n, r, session.uploadUrl, fileSize',
                             session)>>

\* The closure's fetch(uploadUrl, { method: "PUT", ... }) of the range r.
SendPut(r, n, session) ==
  /\ putCount' = putCount + 1
  /\ inflight' = inflight \cup {putCount + 1}
  /\ lastPut' = <<PutRequest(putCount + 1, n, r, uploadUrl', fileSize', session)>>

\* currentSession = data, with the assignment left out.
NextSession_KeepsOld(cur, data) == cur

\* currentSession = data as UploadSession
NextSession(cur, data) == data

\* The range of the next iteration taken as the bytes after the range just
\* sent, whatever the session says.
IterationRange_AfterLastSent(fSize, session) ==
  IF range = <<>>
  THEN calculateBytesRange(fSize, UPLOAD_CHUNK_SIZE, session)
  ELSE calculateBytesRange(fSize, UPLOAD_CHUNK_SIZE,
         MkSession("", Ranges(<<NumToString(NumAdd(range[1].end, Num(1))) \o "-">>)))

\* this.calculateBytesRange(fileSize, chunkSize, currentSession)
IterationRange(fSize, session) ==
  calculateBytesRange(fSize, UPLOAD_CHUNK_SIZE, session)

\* The test for the final response taken as any 2xx status.
IsFinalStatus_Any2xx(status) == status >= 200 /\ status <= 299

\* response.status === 200 || response.status === 201
IsFinalStatus(status) == status = 200 \/ status = 201

\* One pass of the while loop up to its first await: the range is computed
\* from the session, retryWithBackoff is entered and the closure sends the
\* first PUT; a throw of calculateBytesRange leaves the function.
BeginIteration(session) ==
  LET r == IterationRange(fileSize', session) IN
  /\ iter' = iter + 1
  /\ range' = <<r>>
  /\ IF r.threw
     THEN /\ epc' = "failed"
          /\ engineResult' = <<Rejected(r.error)>>
          /\ UNCHANGED <<retryVars, inflight, putCount, lastPut>>
     ELSE /\ RetryEnter(eMaxRetries', 1000, 30000)
          /\ IF rpc' = "calling"
             THEN /\ SendPut(r, iter + 1, session)
                  /\ epc' = "putting"
                  /\ UNCHANGED engineResult
             ELSE /\ epc' = "failed"
                  /\ engineResult' = retResult'
                  /\ UNCHANGED <<inflight, putCount, lastPut>>

\* uploadFileToSession(filePath, session, onProgress, maxRetries) up to its
\* first await, for a file of the given size.
EngineStart(size, session, mr) ==
  /\ epc = "idle"
  /\ uploadUrl' = session.uploadUrl
  /\ IF session.uploadUrl = ""
     THEN /\ epc' = "failed"
          /\ engineResult' = <<Rejected(MkError("Upload URL is not set", 0, FALSE))>>
          /\ UNCHANGED <<fileSize, eMaxRetries, currentSession, range, iter,
                         inflight, putCount, lastPut, retryVars>>
     ELSE /\ fileSize' = size
          /\ eMaxRetries' = mr
          /\ currentSession' = session
          /\ BeginIteration(session)
  /\ UNCHANGED <<response, progressCount, progress>>

\* uploadFileToSession(filePath, session, onProgress, maxRetries) is called.
EngineCall ==
  /\ \E size \in EngineFileSizes, session \in EngineSessions,
        mr \in 0..MaxEngineRetries :
       EngineStart(size, session, mr)
  /\ UNCHANGED <<rangeVars, queueVars, tokenVars, uploadVars>>

\* The PUT in flight is answered (or fails in transport): the closure
\* returns the response or throws, and retryWithBackoff returns, throws, or
\* goes to sleep.
PutAnswered(resp, r) ==
  /\ epc = "putting" /\ rpc = "calling"
  /\ \E id \in inflight :
       /\ id = lastPut[1].id
       /\ inflight' = inflight \ {id}
       /\ IF ~resp.net /\ ResOk(resp)
          THEN RetryOnResolve(resp)
          ELSE RetryOnReject(PutError(resp), r)
       /\ epc' = (IF rpc' = "returned" THEN "responded"
                  ELSE IF rpc' = "threw" THEN "failed" ELSE "putting")
       /\ response' = (IF rpc' = "returned" THEN <<resp>> ELSE response)
       /\ engineResult' = (IF rpc' = "threw" THEN retResult' ELSE engineResult)
  /\ UNCHANGED <<fileSize, uploadUrl, eMaxRetries, currentSession, range, iter,
                 putCount, lastPut, progressCount, progress>>
  /\ UNCHANGED <<rangeVars, queueVars, tokenVars, uploadVars>>

PutSettles ==
  /\ lastPut # <<>>
  /\ \E resp \in ServerResponses(lastPut[1]), r \in 0..(JitterSteps - 1) :
       PutAnswered(resp, r)

\* The range of a later attempt moved on by the attempt number.
AttemptRange_Shifted(r, att) == [r EXCEPT !.start = NumAdd(@, Num(att))]

\* The range an attempt of the closure sends: start, end and
\* calculatedChunkSize are constants of the iteration, captured by the
\* closure, whatever the attempt.
AttemptRange(r, att) == r

\* The backoff sleep is over: the closure runs again and sends the PUT of
\* the same range.
PutRetried ==
  /\ epc = "putting" /\ rpc = "sleeping"
  /\ RetryWake
  /\ UNCHANGED <<fileSize, uploadUrl, eMaxRetries, currentSession, range, iter,
                 response, progressCount, progress>>
  /\ IF rpc' = "calling"
     THEN /\ SendPut(AttemptRange(range[1], attempt'), iter, currentSession)
          /\ UNCHANGED <<epc, engineResult>>
     ELSE /\ epc' = "failed" /\ engineResult' = retResult'
          /\ UNCHANGED <<inflight, putCount, lastPut>>
  /\ UNCHANGED <<rangeVars, queueVars, tokenVars, uploadVars>>

\* The progress report with uploaded = end.
ProgressReport_EndOffset(r, total) == [uploaded |-> r.end, total |-> total]

\* What onProgress is called with (percentage, speed and eta depend on the
\* clock and are left out): uploaded = end + 1, total: fileSize.
ProgressReport(r, total) ==
  [uploaded |-> NumAdd(r.end, Num(1)), total |-> total]

\* After `await response.json()`: progress is reported, then the function
\* returns the item (200 / 201) or takes the body as the session and loops.
BodyRead ==
  /\ epc = "responded"
  /\ LET resp == response[1] IN
     IF ~resp.json
     THEN /\ epc' = "failed"
          /\ engineResult' = <<Rejected(MkError("Failed to parse JSON", 0, FALSE))>>
          /\ UNCHANGED <<fileSize, uploadUrl, eMaxRetries, currentSession, range,
                         iter, inflight, putCount, lastPut, progressCount,
                         progress, retryVars>>
     ELSE /\ progressCount' = progressCount + 1
          /\ progress' = <<ProgressReport(range[1], fileSize)>>
          /\ UNCHANGED <<fileSize, uploadUrl, eMaxRetries>>
          /\ IF IsFinalStatus(resp.status)
             THEN /\ epc' = "completed"
                  /\ engineResult' = <<Resolved(resp.data)>>
                  /\ UNCHANGED <<currentSession, range, iter, inflight, putCount,
                                 lastPut, retryVars>>
             ELSE /\ iter < MaxIter
                  /\ currentSession' = NextSession(currentSession, resp.data)
                  /\ BeginIteration(currentSession')
  /\ UNCHANGED response
  /\ UNCHANGED <<rangeVars, queueVars, tokenVars, uploadVars>>

InitEngine == /\ IdleRange /\ IdleRetry /\ IdleEngine /\ IdleQueue
              /\ IdleToken /\ IdleUpload

NextEngine == EngineCall \/ PutSettles \/ PutRetried \/ BodyRead

SpecEngine == InitEngine /\ [][NextEngine]_vars

(***************************************************************************)
(* uploadFileToSession against a server that accepts every chunk           *)
(***************************************************************************)

\* The answers of a faithful server: the PUT that ends at the last byte of
\* the file is answered 200 or 201 with the item, any other with a session
\* whose first expected range starts right after the last byte received.
FaithfulResponses(put) ==
  LET after == NumToString(NumAdd(put.end, Num(1)))
      last  == IntToString(fileSize - 1)
  IN IF put.end = Num(fileSize - 1)
     THEN {HttpResponse(200, "OK", "", TRUE, DriveItem),
           HttpResponse(201, "Created", "", TRUE, DriveItem)}
     ELSE {HttpResponse(202, "Accepted", "", TRUE,
                        MkSession("", Ranges(<<after \o "-">>))),
           HttpResponse(202, "Accepted", "", TRUE,
                        MkSession("https://up/2", Ranges(<<after \o "-" \o last>>))),
           HttpResponse(202, "Accepted", "", TRUE,
                        MkSession("", Ranges(<<after \o "-" \o last,
                                               "0-" \o after>>)))}

FaithfulPutSettles ==
  /\ lastPut # <<>>
  /\ \E resp \in FaithfulResponses(lastPut[1]) : PutAnswered(resp, 0)

NextFaithful == EngineCall \/ FaithfulPutSettles \/ BodyRead

SpecFaithful == InitEngine /\ [][NextFaithful]_vars

(***************************************************************************)
(* Properties of uploadFileToSession (checked under SpecEngine)            *)
(***************************************************************************)

\* In every state: at most one PUT is in flight, it is the last one sent,
\* it was computed from the current session, and from the second iteration
\* on that session is the body of the last successful response.
OnePutOneSession ==
  /\ Cardinality(inflight) <= 1
  /\ inflight # {} => /\ epc = "putting" /\ rpc = "calling"
                      /\ inflight = {lastPut[1].id}
                      /\ lastPut[1].session = currentSession
                      /\ lastPut[1].iter = iter
  /\ (epc = "putting" /\ iter >= 2) =>
       /\ response # <<>>
       /\ ResOk(response[1])
       /\ currentSession = response[1].data

\* A step that sends the first PUT of a later chunk: the previous PUT has
\* been answered successfully, nothing is in flight, and the body of that
\* answer becomes the session the new range is computed from.
NextChunkStep ==
  (putCount' = putCount + 1 /\ iter' = iter + 1 /\ iter >= 1) =>
    /\ epc = "responded"
    /\ inflight = {}
    /\ rpc = "returned" /\ retResult = <<Resolved(response[1])>>
    /\ ResOk(response[1])
    /\ currentSession' = response[1].data
    /\ lastPut'[1].session = response[1].data
    /\ range' = <<calculateBytesRange(fileSize, UPLOAD_CHUNK_SIZE, response[1].data)>>

\* C4: within one uploadFileToSession call at most one chunk PUT is in
\* flight; the PUT of the next chunk is sent only after the previous chunk's
\* PUT resolved successfully and its response body became the current
\* session; there is one current session at every moment.
C4_ChunksStrictlySequential == []OnePutOneSession /\ [][NextChunkStep]_vars

\* The second chunk of a 12 MiB file is in flight, sent from the session
\* the first answer carried.
C4_Witness ==
  /\ epc = "putting" /\ rpc = "calling"
  /\ iter = 2 /\ fileSize = 12582912
  /\ inflight = {lastPut[1].id}
  /\ lastPut[1].start = Num(5242880) /\ lastPut[1].end = Num(10485759)
  /\ currentSession = response[1].data
  /\ currentSession.nextExpectedRanges.items = <<"5242880-">>

\* The body of the answered PUT has been read and parsed.
BodyParsed == epc = "responded" /\ response[1].json

FinalStatuses == {200, 201}

\* C13: uploadFileToSession completes exactly on a response with status 200
\* or 201 (its body read and parsed): it returns that parsed body, sends no
\* further PUT, and never returns a value after a response of another status.
C13_CompletedIffFinalStatus ==
  /\ [](epc = "completed" =>
          /\ response[1].status \in FinalStatuses
          /\ engineResult = <<Resolved(response[1].data)>>
          /\ inflight = {} /\ rpc = "returned")
  /\ []((engineResult # <<>> /\ engineResult[1].ok) => epc = "completed")
  /\ [][BodyParsed =>
          (epc' = "completed" <=> response[1].status \in FinalStatuses)]_vars
  /\ [][BodyParsed /\ response[1].status \in FinalStatuses =>
          /\ engineResult' = <<Resolved(response[1].data)>>
          /\ putCount' = putCount /\ inflight' = {}]_vars
  /\ [][epc = "completed" =>
          UNCHANGED <<putCount, inflight, engineResult, epc>>]_vars

\* The third chunk of a 12 MiB file was answered 201 and the item returned.
C13_Witness ==
  /\ epc = "completed" /\ iter = 3 /\ fileSize = 12582912
  /\ response[1].status = 201
  /\ engineResult = <<Resolved(DriveItem)>>
  /\ putCount >= 3 /\ lastPut[1].end = Num(12582911)

\* A step that reads the parsed body of a successful answer whose status is
\* neither 200 nor 201.
ContinueStep ==
  /\ BodyParsed /\ ~(response[1].status \in FinalStatuses)
  /\ epc' # epc \/ iter' # iter

\* C14: after a successful PUT with a status other than 200 / 201 the engine
\* stays active, the response body becomes the current session as a whole,
\* and the next range is computed from that body's nextExpectedRanges alone,
\* not from the previous session nor from the range just sent.
C14_SessionReplacedWholesale ==
  [][ContinueStep =>
       /\ epc' = "putting" /\ rpc' = "calling"
       /\ engineResult' = engineResult /\ engineResult = <<>>
       /\ currentSession' = response[1].data
       /\ iter' = iter + 1
       /\ range' = <<calculateBytesRange(fileSize, UPLOAD_CHUNK_SIZE,
                                         response[1].data)>>
       /\ putCount' = putCount + 1
       /\ lastPut'[1].start = range'[1].start
       /\ lastPut'[1].end = range'[1].end
       /\ lastPut'[1].session = response[1].data]_vars

\* The server answered the first chunk 202 with an empty list of expected
\* ranges: the second PUT starts at byte 0 again, not after the first chunk.
C14_Witness ==
  /\ epc = "putting" /\ iter = 2 /\ fileSize = 12582912
  /\ response[1].status = 202
  /\ currentSession = response[1].data
  /\ currentSession.nextExpectedRanges.items = <<>>
  /\ lastPut[1].start = Num(0) /\ lastPut[1].end = Num(5242879)

\* A step in which the PUT in flight fails (HTTP error or no answer).
PutFails ==
  /\ epc = "putting" /\ rpc = "calling"
  /\ Len(history') = Len(history) + 1
  /\ ~history'[Len(history')].ok

\* C15: when a chunk's PUT fails on its last allowed attempt, or with an
\* error the retry policy classifies as fatal, uploadFileToSession fails
\* with that error: no further PUT, no progress call for the chunk, no
\* descriptor.
C15_ChunkFailureIsFinal ==
  /\ [][(PutFails /\ (attempt = eMaxRetries
                      \/ ~IsRetryable(history'[Len(history')].error))) =>
          /\ epc' = "failed"
          /\ engineResult' = <<history'[Len(history')]>>
          /\ putCount' = putCount /\ inflight' = {}
          /\ progressCount' = progressCount]_vars
  /\ [][epc = "failed" =>
          UNCHANGED <<putCount, inflight, progressCount, engineResult, epc>>]_vars
  /\ [](epc = "failed" => (engineResult # <<>> /\ ~engineResult[1].ok))
  /\ []((epc = "failed" /\ rpc = "threw") =>
          (engineResult = retResult /\ progressCount = iter - 1))

\* The second chunk failed twice with 503 (maxRetries = 1): the engine has
\* failed with that error after three PUTs and one progress call.
C15_Witness ==
  /\ epc = "failed" /\ rpc = "threw" /\ iter = 2 /\ eMaxRetries = 1
  /\ putCount = 3 /\ progressCount = 1
  /\ engineResult[1].error.status = 503
  /\ engineResult = <<history[2]>>

CeilDiv(a, b) == (a + b - 1) \div b

\* The PUT last sent is the iter-th chunk of the file: bytes
\* (iter - 1) * C .. min(iter * C, F) - 1, with headers saying so.
LastPutIsChunk(k) ==
  LET first == (k - 1) * UPLOAD_CHUNK_SIZE
      last  == MinOf(k * UPLOAD_CHUNK_SIZE, fileSize) - 1
  IN /\ lastPut[1].id = k /\ lastPut[1].iter = k
     /\ lastPut[1].start = Num(first) /\ lastPut[1].end = Num(last)
     /\ lastPut[1].contentLength = IntToString(last - first + 1)
     /\ lastPut[1].contentRange =
          "bytes " \o IntToString(first) \o "-" \o IntToString(last)
                   \o "/" \o IntToString(fileSize)

\* C16: against a server that accepts every chunk, a file of F bytes sent in
\* chunks of C bytes takes exactly ceil(F / C) PUTs, the k-th carrying bytes
\* (k-1)*C .. min(k*C, F) - 1, so the ranges are increasing, contiguous,
\* disjoint and cover 0 .. F-1; 12 MiB in 5 MiB chunks takes 3 PUTs, the last
\* with Content-Range "bytes 10485760-12582911/12582912".
C16_FaithfulTransferCoversFile ==
  /\ (lastPut # <<>> =>
        /\ putCount = iter /\ iter <= CeilDiv(fileSize, UPLOAD_CHUNK_SIZE)
        /\ LastPutIsChunk(iter)
        /\ epc \in {"putting", "responded", "completed"})
  /\ (epc = "completed" =>
        /\ putCount = CeilDiv(fileSize, UPLOAD_CHUNK_SIZE)
        /\ lastPut[1].end = Num(fileSize - 1))
  /\ ((epc = "completed" /\ fileSize = 12582912) =>
        /\ putCount = 3
        /\ lastPut[1].contentRange = "bytes 10485760-12582911/12582912"
        /\ lastPut[1].contentLength = "2097152")

\* 12 MiB were sent in three PUTs and the item was returned.
C16_Witness ==
  /\ epc = "completed" /\ fileSize = 12582912 /\ putCount = 3 /\ iter = 3
  /\ lastPut[1].contentRange = "bytes 10485760-12582911/12582912"
  /\ progress = <<[uploaded |-> Num(12582912), total |-> 12582912]>>

TasksIn(state) == {t \in 1..added : taskState[t] = state}

\* What getStats() returns.
getStats == [success |-> successCount, failed |-> failCount, total |-> totalFiles]

\* C20: success and failed never decrease; every task completion adds one to
\* exactly one of them; total is always the totalFiles the queue was built
\* with; and once as many tasks were submitted as totalFiles says,
\* success + failed <= total, and less than total only while a task is
\* pending or running.
C20_StatsCountCompletions ==
  /\ [][/\ successCount' >= successCount /\ failCount' >= failCount
        /\ successCount' = successCount + Cardinality(NewlySucceeded)
        /\ failCount' = failCount + Cardinality(NewlyFailed)
        /\ NewlySucceeded \cap NewlyFailed = {}
        /\ \A t \in TasksIn("success") : taskState'[t] = "success"
        /\ \A t \in TasksIn("failed") : taskState'[t] = "failed"
        /\ totalFiles' = totalFiles]_vars
  /\ [](/\ getStats.success = Cardinality(TasksIn("success"))
        /\ getStats.failed = Cardinality(TasksIn("failed"))
        /\ getStats.total = totalFiles
        /\ added <= totalFiles => getStats.success + getStats.failed <= getStats.total
        /\ added = totalFiles =>
             (getStats.success + getStats.failed < getStats.total =>
                TasksIn("pending") \cup TasksIn("running") # {}))

\* All five tasks of a queue built for five are submitted; three are done
\* (one failed), one runs and one waits.
C20_Witness ==
  /\ totalFiles = 5 /\ added = 5 /\ maxConcurrency = 1
  /\ getStats = [success |-> 2, failed |-> 1, total |-> 5]
  /\ Cardinality(TasksIn("running")) = 1 /\ Cardinality(TasksIn("pending")) = 1

(***************************************************************************)
(* GraphClient.getAccessToken                                              *)
(***************************************************************************)

\* Most getAccessToken() calls followed on one client.
MaxCallers == 4

\* What cca.acquireTokenByClientCredential(tokenRequest) settles with: a
\* response carrying a token, a response with an empty token, null, or a
\* rejection.
AcquireResponse(token) == [rejected |-> FALSE, null |-> FALSE,
                           accessToken |-> token, message |-> ""]

AcquireResults ==
  {AcquireResponse("t1"), AcquireResponse("t2"), AcquireResponse(""),
   [rejected |-> FALSE, null |-> TRUE, accessToken |-> "", message |-> ""],
   [rejected |-> TRUE, null |-> FALSE, accessToken |-> "",
    message |-> "network_error: Network request failed"]}

AccessToken(token) == [tag |-> "token", accessToken |-> token]

\* What the promise stored in this.tokenPromise settles with: the token, the
\* error thrown for a missing token, or the rejection rethrown by the catch.
TokenOutcome(res) ==
  IF res.rejected THEN Rejected(MkError(res.message, 0, FALSE))
  ELSE IF res.null \/ res.accessToken = ""
  THEN Rejected(MkError("Failed to acquire access token", 0, FALSE))
  ELSE Resolved(AccessToken(res.accessToken))

\* getAccessToken without the test for an acquisition in progress.
HasTokenPromise_Never == FALSE

\* if (this.tokenPromise)
HasTokenPromise == tokenPromise # 0

\* getAccessToken() up to its return: the caller gets the promise of the
\* acquisition in progress, or a new acquisition is requested and stored.
TokenCall ==
  /\ IF HasTokenPromise
     THEN /\ callerPromise' = Append(callerPromise, tokenPromise)
          /\ UNCHANGED <<tokenPromise, outstanding, tokenOutcome>>
     ELSE LET id == Len(tokenOutcome) + 1 IN
          /\ tokenOutcome' = Append(tokenOutcome, <<>>)
          /\ outstanding' = outstanding \cup {id}
          /\ tokenPromise' = id
          /\ callerPromise' = Append(callerPromise, id)
  /\ callerResult' = Append(callerResult, <<>>)

\* The await of call c can resume: its promise has settled.
TokenReady(c) ==
  /\ c \in 1..Len(callerPromise)
  /\ callerResult[c] = <<>>
  /\ tokenOutcome[callerPromise[c]] # <<>>

\* The await of call c resumes with the outcome of its promise.
TokenResumed(c) ==
  /\ TokenReady(c)
  /\ callerResult' = [callerResult EXCEPT ![c] = tokenOutcome[callerPromise[c]]]
  /\ UNCHANGED <<tokenPromise, outstanding, tokenOutcome, callerPromise>>

\* A caller calls getAccessToken().
GetAccessToken ==
  /\ Len(callerPromise) < MaxCallers
  /\ TokenCall
  /\ UNCHANGED <<rangeVars, retryVars, engineVars, queueVars, uploadVars>>

\* An acquisition settles with the slot cleared after a success only.
AcquireSettles_KeepsFailure ==
  /\ \E id \in outstanding, res \in AcquireResults :
       /\ outstanding' = outstanding \ {id}
       /\ tokenOutcome' = [tokenOutcome EXCEPT ![id] = <<TokenOutcome(res)>>]
       /\ tokenPromise' = (IF TokenOutcome(res).ok THEN 0 ELSE tokenPromise)
  /\ UNCHANGED <<callerPromise, callerResult>>
  /\ UNCHANGED <<rangeVars, retryVars, engineVars, queueVars, uploadVars>>

\* An acquisition settles: the promise settles and the finally block clears
\* this.tokenPromise.
AcquireSettles ==
  /\ \E id \in outstanding, res \in AcquireResults :
       /\ outstanding' = outstanding \ {id}
       /\ tokenOutcome' = [tokenOutcome EXCEPT ![id] = <<TokenOutcome(res)>>]
  /\ tokenPromise' = 0
  /\ UNCHANGED <<callerPromise, callerResult>>
  /\ UNCHANGED <<rangeVars, retryVars, engineVars, queueVars, uploadVars>>

CallerResumes ==
  /\ \E c \in 1..Len(callerPromise) : TokenResumed(c)
  /\ UNCHANGED <<rangeVars, retryVars, engineVars, queueVars, uploadVars>>

InitToken == /\ IdleRange /\ IdleRetry /\ IdleEngine /\ IdleQueue
             /\ IdleToken /\ IdleUpload

NextToken == GetAccessToken \/ AcquireSettles \/ CallerResumes

SpecToken == InitToken /\ [][NextToken]_vars

\* A step in which getAccessToken() is called while an acquisition is in
\* flight.
CallWhileInFlight ==
  Len(callerPromise') = Len(callerPromise) + 1 /\ outstanding # {}

\* C19: at most one token acquisition is outstanding per client; a
\* getAccessToken() call made while one is in flight requests nothing new
\* and settles with the outcome of that acquisition, the same token or the
\* same error for every such caller.
C19_TokenSingleFlight ==
  /\ [](/\ Cardinality(outstanding) <= 1
        /\ outstanding # {} => outstanding = {tokenPromise}
        /\ \A c \in 1..Len(callerPromise) :
             callerResult[c] # <<>> =>
               callerResult[c] = tokenOutcome[callerPromise[c]]
        /\ \A c, d \in 1..Len(callerPromise) :
             (callerPromise[c] = callerPromise[d] /\ callerResult[c] # <<>>
              /\ callerResult[d] # <<>>) => callerResult[c] = callerResult[d])
  /\ [][CallWhileInFlight =>
          /\ outstanding' = outstanding
          /\ Len(tokenOutcome') = Len(tokenOutcome)
          /\ outstanding = {callerPromise'[Len(callerPromise')]}]_vars

\* Three calls shared the first acquisition and got its token; a fourth
\* call, made after it settled, started a second one, which failed.
C19_Witness ==
  /\ callerPromise = <<1, 1, 1, 2>>
  /\ callerResult[1] = <<Resolved(AccessToken("t1"))>>
  /\ callerResult[2] = callerResult[1] /\ callerResult[3] = callerResult[1]
  /\ callerResult[4] # <<>> /\ ~callerResult[4][1].ok
  /\ outstanding = {}

(***************************************************************************)
(* One file uploaded by handleUpload, or by the task handleUploadDirectory *)
(* gives the queue: GraphClient.uploadFile for a small file,               *)
(* createUploadSession and uploadFileToSession for a large one             *)
(***************************************************************************)

\* const MAX_DIRECT_UPLOAD_SIZE = 5 * 1024 * 1024
MAX_DIRECT_UPLOAD_SIZE == 5 * 1024 * 1024

\* const MAX_CONCURRENT_UPLOADS = 5
MAX_CONCURRENT_UPLOADS == 5

\* maxRetries: number = 3, the default of uploadFile and uploadFileToSession
DefaultMaxRetries == 3

UploadFileSizes == EngineFileSizes

\* The routing test with every file sent to the chunked path.
IsDirectUpload_Never(size) == FALSE

\* if (fileSize <= MAX_DIRECT_UPLOAD_SIZE)
IsDirectUpload(size) == size <= MAX_DIRECT_UPLOAD_SIZE

\* What the fetch of uploadFile (PUT .../content) settles with.
DirectResponses == {
  HttpResponse(200, "OK", "", TRUE, DriveItem),
  HttpResponse(201, "Created", "", TRUE, DriveItem),
  HttpResponse(200, "OK", "<html>", FALSE, IdleSession),
  HttpResponse(500, "Internal Server Error", "", FALSE, IdleSession),
  HttpResponse(400, "Bad Request", "", FALSE, IdleSession),
  NetworkFailure("fetch failed"),
  NetworkFailure("Unable to connect. Is the computer able to access the url?") }

\* The error uploadFile's closure throws: the rejection of fetch as it is,
\* an error carrying the status for a response that is not ok, or the
\* rejection of response.json().
DirectError(resp) ==
  IF resp.net THEN MkError(resp.text, 0, FALSE)
  ELSE IF ~ResOk(resp)
  THEN MkError("Failed to upload file: " \o NatToString(resp.status) \o " "
               \o resp.statusText, resp.status, FALSE)
  ELSE MkError("JSON Parse error: Unrecognized token '<'", 0, FALSE)

\* What the fetch of createUploadSession (POST) settles with.
CreateSessionResponses == {
  HttpResponse(200, "OK", "", TRUE, MkSession("https://up/1", Ranges(<<"0-">>))),
  HttpResponse(200, "OK", "", TRUE, MkSession("", Ranges(<<"0-">>))),
  HttpResponse(503, "Service Unavailable", "", FALSE, IdleSession),
  NetworkFailure("fetch failed") }

\* The error createUploadSession throws: no status is attached.
CreateSessionError(resp) ==
  IF resp.net THEN MkError(resp.text, 0, FALSE)
  ELSE MkError("Failed to create upload session: " \o NatToString(resp.status)
               \o " " \o resp.statusText \o "\n" \o resp.text, 0, FALSE)

\* The answers of a server that fails the first PUT of chunk flakyChunk with
\* a 500 and accepts every other PUT.
ScenarioResponses(put) ==
  IF put.iter = flakyChunk /\ attempt = 0
  THEN {HttpResponse(500, "Internal Server Error", "", FALSE, IdleSession)}
  ELSE FaithfulResponses(put)

\* The upload of the file has settled. handleUpload goes on (or the error
\* leaves it); in a batch task a success is followed by the 50 ms pause
\* and a failure is counted and rethrown to the queue's wrapper.
FinishTransfer(outcome) ==
  /\ hResult' = <<outcome>>
  /\ IF hBatch /\ ~outcome.ok
     THEN /\ hpc' = "failed"
          /\ failedCount' = failedCount + 1
          /\ SettleTask(1, FALSE)
     ELSE /\ hpc' = (IF ~outcome.ok THEN "failed"
                     ELSE IF hBatch THEN "closing" ELSE "done")
          /\ UNCHANGED <<failedCount, queueVars>>

\* The routing on the file size up to the first await: uploadFile enters
\* retryWithBackoff and its closure calls getAccessToken; or
\* createUploadSession calls getAccessToken.
StartTransfer(size) ==
  /\ TokenCall
  /\ IF IsDirectUpload(size)
     THEN /\ RetryEnter(DefaultMaxRetries, 1000, 30000)
          /\ hpc' = "token"
          /\ sessionCalls' = sessionCalls
     ELSE /\ hpc' = "creatingToken"
          /\ sessionCalls' = sessionCalls + 1
          /\ UNCHANGED retryVars
  /\ UNCHANGED <<directPuts, hResult, failedCount>>
  /\ UNCHANGED <<rangeVars, engineVars>>

\* handleUpload(filePath, directory) for an existing file, with USER_ID set.
HandleUpload ==
  /\ hpc = "idle" /\ added = 0
  /\ \E size \in UploadFileSizes, k \in 0..MaxIter :
       /\ hFileSize' = size /\ flakyChunk' = k /\ hBatch' = FALSE
       /\ StartTransfer(size)
  /\ UNCHANGED queueVars

\* uploadFile's closure after `await this.getAccessToken()`: the PUT is
\* sent, or the rejection is caught by retryWithBackoff.
AfterDirectReject ==
  IF rpc' = "threw"
  THEN FinishTransfer(retResult'[1])
  ELSE hpc' = "backoff" /\ UNCHANGED <<hResult, failedCount, queueVars>>

DirectTokenResumes ==
  /\ hpc = "token"
  /\ LET c == Len(callerPromise) IN
     /\ TokenResumed(c)
     /\ LET out == tokenOutcome[callerPromise[c]][1] IN
        IF out.ok
        THEN /\ directPuts' = directPuts + 1
             /\ hpc' = "fetch"
             /\ UNCHANGED <<retryVars, hResult, failedCount, queueVars>>
        ELSE /\ \E r \in 0..(JitterSteps - 1) : RetryOnReject(out.error, r)
             /\ AfterDirectReject
             /\ UNCHANGED directPuts
  /\ UNCHANGED <<hBatch, hFileSize, flakyChunk, sessionCalls>>
  /\ UNCHANGED <<rangeVars, engineVars>>

\* The content PUT is answered, or fetch rejects.
DirectPutSettles ==
  /\ hpc = "fetch"
  /\ \E resp \in DirectResponses, r \in 0..(JitterSteps - 1) :
       IF ~resp.net /\ ResOk(resp) /\ resp.json
       THEN RetryOnResolve(resp.data) /\ FinishTransfer(Resolved(resp.data))
       ELSE RetryOnReject(DirectError(resp), r) /\ AfterDirectReject
  /\ UNCHANGED <<hBatch, hFileSize, flakyChunk, sessionCalls, directPuts>>
  /\ UNCHANGED <<rangeVars, engineVars, tokenVars>>

\* The backoff sleep of uploadFile is over: the closure runs again.
DirectRetry ==
  /\ hpc = "backoff"
  /\ RetryWake
  /\ IF rpc' = "calling"
     THEN TokenCall /\ hpc' = "token" /\ UNCHANGED <<hResult, failedCount, queueVars>>
     ELSE FinishTransfer(retResult'[1]) /\ UNCHANGED tokenVars
  /\ UNCHANGED <<hBatch, hFileSize, flakyChunk, sessionCalls, directPuts>>
  /\ UNCHANGED <<rangeVars, engineVars>>

\* createUploadSession after `await this.getAccessToken()`: the POST is
\* sent, or the rejection leaves createUploadSession.
SessionTokenResumes ==
  /\ hpc = "creatingToken"
  /\ LET c == Len(callerPromise) IN
     /\ TokenResumed(c)
     /\ LET out == tokenOutcome[callerPromise[c]][1] IN
        IF out.ok
        THEN hpc' = "creating" /\ UNCHANGED <<hResult, failedCount, queueVars>>
        ELSE FinishTransfer(out)
  /\ UNCHANGED <<hBatch, hFileSize, flakyChunk, sessionCalls, directPuts>>
  /\ UNCHANGED <<rangeVars, retryVars, engineVars>>

\* The POST is answered: uploadFileToSession is called with the session, or
\* createUploadSession throws.
CreateSessionSettles ==
  /\ hpc = "creating"
  /\ \E resp \in CreateSessionResponses :
       IF ~resp.net /\ ResOk(resp) /\ resp.json
       THEN /\ EngineStart(hFileSize, resp.data, DefaultMaxRetries)
            /\ hpc' = "engine"
            /\ UNCHANGED <<hResult, failedCount, queueVars>>
       ELSE /\ FinishTransfer(Rejected(CreateSessionError(resp)))
            /\ UNCHANGED <<retryVars, engineVars>>
  /\ UNCHANGED <<hBatch, hFileSize, flakyChunk, sessionCalls, directPuts>>
  /\ UNCHANGED <<rangeVars, tokenVars>>

\* A chunk PUT is answered by the server of the scenario.
ScenarioPutSettles ==
  /\ hpc = "engine" /\ lastPut # <<>>
  /\ \E resp \in ScenarioResponses(lastPut[1]), r \in 0..(JitterSteps - 1) :
       PutAnswered(resp, r)

\* `await graphClient.uploadFileToSession(...)` resumes.
EngineSettles ==
  /\ hpc = "engine" /\ epc \in {"completed", "failed"}
  /\ FinishTransfer(engineResult[1])
  /\ UNCHANGED <<hBatch, hFileSize, flakyChunk, sessionCalls, directPuts>>
  /\ UNCHANGED <<rangeVars, retryVars, engineVars, tokenVars>>

InitUpload == /\ IdleRange /\ IdleRetry /\ IdleEngine /\ IdleQueue
              /\ IdleToken /\ IdleUpload

NextUpload ==
  \/ HandleUpload
  \/ AcquireSettles
  \/ DirectTokenResumes
  \/ DirectPutSettles
  \/ DirectRetry
  \/ SessionTokenResumes
  \/ CreateSessionSettles
  \/ ScenarioPutSettles
  \/ PutRetried
  \/ BodyRead
  \/ EngineSettles

SpecUpload == InitUpload /\ [][NextUpload]_vars

\* handleUploadDirectory for a directory holding one file, from the loop
\* over the files on: the task is added (and started by process(), up to
\* its first await), then waitForCompletion() is called and finds it
\* running.
HandleUploadDirectory ==
  /\ hpc = "idle" /\ added = 0
  /\ \E size \in UploadFileSizes, k \in 0..MaxIter :
       /\ hFileSize' = size /\ flakyChunk' = k /\ hBatch' = TRUE
       /\ StartTransfer(size)
  /\ added' = added + 1
  /\ Commit(process([QueueState EXCEPT !.queue = Append(@, added + 1),
                                       !.taskState = Append(@, "pending"),
                                       !.taskKind = Append(@, "async")]))
  /\ wpc' = (IF Len(queue') > 0 \/ running' > 0 THEN "sleeping" ELSE "returned")
  /\ wsnap' = (IF Len(queue') > 0 \/ running' > 0 THEN wsnap ELSE <<Snapshot'>>)
  /\ UNCHANGED <<maxConcurrency, totalFiles>>

\* The 50 ms pause after a successful upload is over: the task function
\* returns and the queue's wrapper counts it.
TaskCloses ==
  /\ hpc = "closing"
  /\ SettleTask(1, TRUE)
  /\ hpc' = "done"
  /\ UNCHANGED <<hBatch, hFileSize, flakyChunk, sessionCalls, directPuts, hResult,
                 failedCount>>
  /\ UNCHANGED <<rangeVars, retryVars, engineVars, tokenVars>>

\* new UploadQueue(MAX_CONCURRENT_UPLOADS, files.length) with one file found.
InitBatch == /\ queue = <<>>
             /\ maxConcurrency = MAX_CONCURRENT_UPLOADS
             /\ totalFiles = 1
             /\ successCount = 0 /\ failCount = 0 /\ running = 0
             /\ taskState = <<>> /\ taskKind = <<>> /\ started = <<>>
             /\ added = 0 /\ unhandled = 0
             /\ wpc = "idle" /\ wsnap = <<>>
             /\ IdleRange /\ IdleRetry /\ IdleEngine
             /\ IdleToken /\ IdleUpload

NextBatch ==
  \/ HandleUploadDirectory
  \/ AcquireSettles
  \/ DirectTokenResumes
  \/ DirectPutSettles
  \/ DirectRetry
  \/ SessionTokenResumes
  \/ CreateSessionSettles
  \/ ScenarioPutSettles
  \/ PutRetried
  \/ BodyRead
  \/ EngineSettles
  \/ TaskCloses
  \/ WaitPoll

SpecBatch == InitBatch /\ [][NextBatch]_vars

(***************************************************************************)
(* handleUploadDirectory for several files, each upload reduced to its     *)
(* outcome                                                                 *)
(***************************************************************************)

\* Most files found in the directory.
MaxFiles == 7

\* The loop over the files: queue.add(async () => ...) for the files 1..n,
\* each add followed by process().
RECURSIVE AddFiles(_, _)
AddFiles(st, n) ==
  IF n = 0 THEN st
  ELSE process([AddFiles(st, n - 1) EXCEPT !.queue = Append(@, n),
                                           !.taskState = Append(@, "pending"),
                                           !.taskKind = Append(@, "async")])

\* handleUploadDirectory from the loop over the files on: every file is
\* added, then waitForCompletion() is called and finds tasks running.
SubmitFiles ==
  /\ added = 0
  /\ added' = totalFiles
  /\ Commit(AddFiles(QueueState, totalFiles))
  /\ wpc' = (IF Len(queue') > 0 \/ running' > 0 THEN "sleeping" ELSE "returned")
  /\ wsnap' = (IF Len(queue') > 0 \/ running' > 0 THEN wsnap ELSE <<Snapshot'>>)
  /\ hBatch' = TRUE
  /\ UNCHANGED <<maxConcurrency, totalFiles>>
  /\ UNCHANGED <<hpc, hFileSize, flakyChunk, sessionCalls, directPuts, hResult,
                 failedCount>>
  /\ UNCHANGED <<rangeVars, retryVars, engineVars, tokenVars>>

\* The upload of a running task has settled. After a success the task
\* pauses 50 ms and returns; a failure is counted in the catch block and
\* thrown again, so the task's promise rejects.
UploadSettles(task, ok) ==
  /\ hBatch
  /\ SettleTask(task, ok)
  /\ failedCount' = (IF ok THEN failedCount ELSE failedCount + 1)
  /\ UNCHANGED <<hpc, hBatch, hFileSize, flakyChunk, sessionCalls, directPuts,
                 hResult>>
  /\ UNCHANGED <<rangeVars, retryVars, engineVars, tokenVars>>

UploadSucceeds(task) == UploadSettles(task, TRUE)

UploadThrows(task) == UploadSettles(task, FALSE)

\* new UploadQueue(MAX_CONCURRENT_UPLOADS, files.length) with at least one
\* file found.
InitDirectory == /\ queue = <<>>
                 /\ maxConcurrency = MAX_CONCURRENT_UPLOADS
                 /\ totalFiles \in 1..MaxFiles
                 /\ successCount = 0 /\ failCount = 0 /\ running = 0
                 /\ taskState = <<>> /\ taskKind = <<>> /\ started = <<>>
                 /\ added = 0 /\ unhandled = 0
                 /\ wpc = "idle" /\ wsnap = <<>>
                 /\ IdleRange /\ IdleRetry /\ IdleEngine
                 /\ IdleToken /\ IdleUpload

NextDirectory ==
  \/ SubmitFiles
  \/ \E task \in 1..MaxFiles : UploadSucceeds(task)
  \/ \E task \in 1..MaxFiles : UploadThrows(task)
  \/ WaitPoll

SpecDirectory == InitDirectory /\ [][NextDirectory]_vars

(***************************************************************************)
(* Properties of the upload of one file (SpecUpload, SpecBatch)            *)
(***************************************************************************)

\* handleUpload was called for a file below the chunking threshold.
SmallFile == hpc # "idle" /\ hFileSize < MAX_DIRECT_UPLOAD_SIZE

\* A step in which the content PUT of uploadFile fails.
DirectPutFails ==
  /\ hpc = "fetch"
  /\ Len(history') = Len(history) + 1
  /\ ~history'[Len(history')].ok

\* C17: a file below the chunking threshold goes the single-shot way:
\* createUploadSession is not called, uploadFileToSession is not entered,
\* the PUT runs under retryWithBackoff with maxRetries 3, 1000 ms and
\* 30000 ms, and when no attempt fails exactly one PUT is sent.
C17_SmallFileSingleShot ==
  /\ [](SmallFile =>
          /\ sessionCalls = 0
          /\ epc = "idle" /\ iter = 0 /\ putCount = 0
          /\ rpc # "idle"
          /\ maxRetries = 3 /\ initialDelay = 1000 /\ maxDelay = 30000
          /\ directPuts <= calls /\ calls <= maxRetries + 1
          /\ hpc = "done" =>
               /\ hResult = <<Resolved(DriveItem)>>
               /\ directPuts >= 1
               /\ Len(history) = 1 => directPuts = 1)
  /\ [][(SmallFile /\ DirectPutFails) =>
          (hpc' = "backoff" <=>
             (attempt < 3 /\ IsRetryable(history'[Len(history')].error)))]_vars

\* A 1 MiB file was uploaded with one PUT, the first attempt succeeding.
C17_Witness ==
  /\ hpc = "done" /\ hFileSize = 1048576 /\ ~hBatch
  /\ directPuts = 1 /\ calls = 1 /\ Len(history) = 1
  /\ sessionCalls = 0 /\ epc = "idle"
  /\ hResult = <<Resolved(DriveItem)>>

\* A 12 MiB file (three chunks) is sent as a batch task to a server that
\* answers the first PUT of chunk 2 with a 500 and accepts every other PUT.
FlakySecondChunk ==
  /\ hBatch /\ hFileSize = 12582912 /\ flakyChunk = 2
  /\ epc # "idle" /\ uploadUrl # ""

\* The number of PUTs sent when the attempt-th try of chunk iter is out.
PutsUpTo(k, att) == IF k = 1 THEN 1 ELSE IF k = 2 THEN 2 + att ELSE 4

\* C18: with a transient 500 on the first PUT of chunk 2 of 3, that chunk is
\* sent again once (4 PUTs in all), the chunks go out in the order 1, 2, 3,
\* the item is returned, and the batch queue counts one success and no
\* failure.
C18_TransientFailureRetriedOnce ==
  FlakySecondChunk =>
    /\ epc # "failed" /\ eMaxRetries = 3
    /\ iter \in 1..3
    /\ putCount = PutsUpTo(iter, attempt)
    /\ attempt <= (IF iter = 2 THEN 1 ELSE 0)
    /\ lastPut[1].iter = iter
    /\ lastPut[1].start = Num((iter - 1) * UPLOAD_CHUNK_SIZE)
    /\ lastPut[1].end = Num(MinOf(iter * UPLOAD_CHUNK_SIZE, fileSize) - 1)
    /\ rpc = "sleeping" => (iter = 2 /\ history[1].error.status = 500)
    /\ epc = "completed" =>
         /\ putCount = 4 /\ iter = 3 /\ progressCount = 3
         /\ engineResult = <<Resolved(DriveItem)>>
    /\ hpc \in {"closing", "done"} => hResult = <<Resolved(DriveItem)>>
    /\ hpc = "done" => getStats = [success |-> 1, failed |-> 0, total |-> 1]
    /\ failCount = 0
    /\ wpc = "returned" =>
         /\ hpc = "done"
         /\ wsnap[1].success = 1 /\ wsnap[1].failed = 0 /\ wsnap[1].total = 1

\* The batch is over: four PUTs were sent, and the stats read after
\* waitForCompletion() show one success.
C18_Witness ==
  /\ FlakySecondChunk /\ wpc = "returned" /\ hpc = "done"
  /\ putCount = 4 /\ iter = 3 /\ epc = "completed"
  /\ wsnap[1].success = 1 /\ wsnap[1].failed = 0

\* The errors uploadFile's closure throws when fetch rejects.
DirectTransportErrors == {DirectError(resp) : resp \in {x \in DirectResponses : x.net}}

\* C21: a transport failure (fetch rejects) on an attempt that is not the
\* last is always followed by a backoff sleep and another attempt, whatever
\* the message of the rejection; stated here for uploadFile's PUT.
C21_TransportFailureAlwaysRetried ==
  [][(/\ hpc = "fetch" /\ attempt < maxRetries
      /\ Len(history') = Len(history) + 1
      /\ ~history'[Len(history')].ok
      /\ history'[Len(history')].error \in DirectTransportErrors)
       => /\ hpc' = "backoff" /\ rpc' = "sleeping"
          /\ sleepCount' = sleepCount + 1]_vars

\* calculateBytesRange threw in the current iteration.
ValidationFailed == range # <<>> /\ range[1].threw

\* C24: a validation failure of the range computation (here: a file smaller
\* than the chunk size) leaves uploadFileToSession at once with that error:
\* no PUT in that iteration, no retry, no sleep, no progress call.
C24_ValidationErrorNotRetried ==
  /\ (epc # "idle" /\ uploadUrl # "" /\ fileSize < UPLOAD_CHUNK_SIZE)
       => ValidationFailed
  /\ ValidationFailed =>
       /\ epc = "failed"
       /\ engineResult = <<Rejected(range[1].error)>>
       /\ range[1].error.isError
       /\ iter = 1 /\ putCount = 0 /\ inflight = {} /\ lastPut = <<>>
       /\ rpc = "idle" /\ calls = 0 /\ sleepCount = 0
       /\ progressCount = 0

\* uploadFileToSession was called for a 1 MiB file and threw the size error.
C24_Witness ==
  /\ epc = "failed" /\ fileSize = 1048576 /\ ValidationFailed
  /\ engineResult[1].error.message =
       "File size is smaller than chunk size. fileSize: 1048576, chunkSize: 5242880"
  /\ putCount = 0 /\ eMaxRetries = 1

\* The body of an ok response that is neither the item of a final answer
\* nor a session: it is not JSON, or it is the body of a non-final answer
\* without an array of expected ranges.
InvalidBody(resp) ==
  \/ ~resp.json
  \/ ~IsFinalStatus(resp.status) /\ ~resp.data.nextExpectedRanges.isArray

\* C25: when the body of a successful chunk PUT is neither a final item nor
\* a valid session, the transfer fails there: no further PUT, no sleep, and
\* the current session is not replaced by the invalid one.
C25_InvalidBodyIsFatal ==
  [][(epc = "responded" /\ InvalidBody(response[1]) /\ epc' # epc)
       => /\ epc' = "failed"
          /\ putCount' = putCount /\ sleepCount' = sleepCount
          /\ currentSession' = currentSession]_vars

(***************************************************************************)
(* Properties of the batch of several files (SpecDirectory)                *)
(***************************************************************************)

\* The tasks of a snapshot that are in the given state.
SnapTasksIn(snap, state) ==
  {t \in 1..Len(snap.taskState) : snap.taskState[t] = state}

\* C26: a failed upload is counted and does not stop the batch: every file
\* found is added and either waits in the backlog, runs or has finished,
\* and when waitForCompletion() has returned every file was attempted,
\* stats.failed is the number of uploads that threw, stats.success the
\* number that did not, and the two add up to the number of files.
C26_BatchFailureIsolation ==
  /\ added > 0 =>
       /\ added = totalFiles /\ Len(taskState) = totalFiles
       /\ \A t \in 1..totalFiles :
            taskState[t] = "pending" <=> \E i \in 1..Len(queue) : queue[i] = t
       /\ failCount = failedCount
       /\ failedCount = Cardinality(TasksIn("failed"))
       /\ unhandled = 0
  /\ wsnap # <<>> =>
       LET stats == wsnap[1] IN
         /\ stats.added = totalFiles
         /\ \A t \in 1..totalFiles : stats.taskState[t] \in {"success", "failed"}
         /\ stats.failed = failedCount
         /\ stats.failed = Cardinality(SnapTasksIn(stats, "failed"))
         /\ stats.success = totalFiles - failedCount
         /\ stats.success + stats.failed = stats.total
         /\ stats.total = totalFiles

\* Seven files, more than the five slots: the first upload threw, another
\* one too, and the batch finished with five successes.
C26_Witness ==
  /\ wsnap # <<>> /\ totalFiles = 7
  /\ wsnap[1].taskState[1] = "failed"
  /\ wsnap[1].failed = 2 /\ wsnap[1].success = 5
  /\ failedCount = 2

(***************************************************************************)
(* Order and saturation of the queue (SpecQueue)                           *)
(***************************************************************************)

\* C27: tasks start in the order they were added: the k-th task to start
\* is the k-th task added, and the backlog holds the tasks added after it,
\* oldest first, whatever the order in which running tasks settle.
C27_StartsInFifoOrder ==
  /\ \A i \in 1..Len(started) : started[i] = i
  /\ Len(queue) = added - Len(started)
  /\ \A i \in 1..Len(queue) : queue[i] = Len(started) + i

\* Two slots: the second task settled while the first still runs, the
\* third took its slot, and the fourth and fifth wait.
C27_Witness ==
  /\ maxConcurrency = 2 /\ added = 5
  /\ taskState[1] = "running" /\ taskState[2] \in {"success", "failed"}
  /\ taskState[3] = "running"
  /\ started = <<1, 2, 3>> /\ queue = <<4, 5>>
\* C28: the pool is kept saturated: after every add() and every completion
\* the backlog is empty or every slot is taken, so no task waits while a
\* slot is free; and add() returns without any running task having
\* settled.
C28_PoolSaturated ==
  /\ [](Len(queue) = 0 \/ running = maxConcurrency)
  /\ [][added' = added + 1 =>
          /\ \A t \in RunningTasks : taskState'[t] = "running"
          /\ successCount' = successCount
          /\ wpc' = wpc]_vars

\* Two slots, both taken again after two completions, one task waiting.
C28_Witness ==
  /\ maxConcurrency = 2 /\ running = 2 /\ Len(queue) = 1
  /\ successCount = 1 /\ failCount = 1 /\ added = 5
  /\ \A t \in 1..added : taskKind[t] = "async"
(***************************************************************************)
(* Progress reports and retried chunks (SpecEngine)                        *)
(***************************************************************************)

\* C29: onProgress is called once for every chunk whose PUT succeeded and
\* whose body was read, the final one included, before the next chunk's
\* PUT is sent, with uploaded = end + 1 of the chunk sent and
\* total = fileSize; a failed attempt, a retry or a failed transfer never
\* calls it.
C29_ProgressOncePerChunk ==
  /\ [](/\ epc \in {"putting", "responded"} => progressCount = iter - 1
        /\ epc = "completed" => progressCount = iter
        /\ epc = "failed" => progressCount = (IF iter = 0 THEN 0 ELSE iter - 1)
        /\ progressCount = 0 <=> progress = <<>>)
  /\ [][/\ (epc = "responded" /\ response[1].json /\ epc' # epc)
             => /\ progressCount' = progressCount + 1
                /\ progress' = <<[uploaded |-> NumAdd(lastPut[1].end, Num(1)),
                                  total |-> fileSize]>>
                /\ epc' \in {"completed", "putting", "failed"}
        /\ ~(epc = "responded" /\ response[1].json)
             => progressCount' = progressCount /\ progress' = progress]_vars

\* The second chunk of a 12 MiB file was accepted and reported: 10 MiB of
\* 12 MiB uploaded, the third chunk on its way.
C29_Witness ==
  /\ epc = "putting" /\ iter = 3 /\ progressCount = 2
  /\ fileSize = 12582912
  /\ progress = <<[uploaded |-> Num(10485760), total |-> 12582912]>>
  /\ sleepCount >= 1
\* C30: every attempt for one chunk sends the same byte range: a retry
\* repeats the Content-Range "bytes start-end/fileSize" and the
\* Content-Length end - start + 1 of the attempt before it, to the same
\* URL, and a failed attempt changes neither the range of the iteration
\* nor the current session.
C30_RetriesSendSameRange ==
  /\ [](lastPut # <<>> =>
          LET put == lastPut[1] IN
            /\ put.start = range[1].start /\ put.end = range[1].end
            /\ put.contentRange = "bytes " \o NumToString(put.start) \o "-"
                                    \o NumToString(put.end) \o "/"
                                    \o IntToString(fileSize)
            /\ put.contentLength =
                 NumToString(NumAdd(NumSub(put.end, put.start), Num(1))))
  /\ [][/\ (epc = "putting" /\ rpc = "sleeping" /\ putCount' = putCount + 1)
             => /\ lastPut'[1].contentRange = lastPut[1].contentRange
                /\ lastPut'[1].contentLength = lastPut[1].contentLength
                /\ lastPut'[1].start = lastPut[1].start
                /\ lastPut'[1].end = lastPut[1].end
                /\ lastPut'[1].url = lastPut[1].url
                /\ lastPut'[1].iter = lastPut[1].iter
                /\ lastPut'[1].id # lastPut[1].id
        /\ (epc = "putting" /\ epc' \in {"putting", "failed"})
             => /\ range' = range /\ currentSession' = currentSession
                /\ iter' = iter]_vars

\* The second chunk of a 12 MiB file is sent a second time after a failed
\* attempt: bytes 5242880-10485759.
C30_Witness ==
  /\ epc = "putting" /\ rpc = "calling" /\ attempt = 1 /\ iter = 2
  /\ putCount = 3 /\ fileSize = 12582912
  /\ lastPut[1].contentRange = "bytes 5242880-10485759/12582912"
  /\ lastPut[1].contentLength = "5242880"
(***************************************************************************)
(* Conservation, single start and progress of the queue                    *)
(***************************************************************************)

\* C31: no task is lost or counted twice: the tasks counted as succeeded,
\* counted as failed, running and waiting in the backlog add up to the
\* number of add() calls, and each task is in exactly one of these groups.
C31_TasksConserved ==
  /\ successCount + failCount + running + Len(queue) = added
  /\ Len(taskState) = added
  /\ successCount = Cardinality(TasksIn("success"))
  /\ failCount = Cardinality(TasksIn("failed"))
  /\ running = Cardinality(TasksIn("running"))
  /\ Len(queue) = Cardinality(TasksIn("pending"))
  /\ \A t \in 1..added :
       taskState[t] \in {"pending", "running", "success", "failed"}

\* Five tasks added: one succeeded, one failed, two run, one waits.
C31_Witness ==
  /\ added = 5 /\ successCount = 1 /\ failCount = 1
  /\ running = 2 /\ Len(queue) = 1
\* How many times the body of task t was started.
StartsOf(t) == Cardinality({i \in 1..Len(started) : started[i] = t})

\* C32: the body of a task is started at most once: a task that left the
\* backlog was started exactly once and is not in the backlog any more, a
\* waiting task was never started, and a step only starts tasks that were
\* waiting (or are added in that step), each of them once.
C32_StartedAtMostOnce ==
  /\ [](\A t \in 1..added :
          /\ StartsOf(t) <= 1
          /\ StartsOf(t) = 1 <=> taskState[t] # "pending"
          /\ StartsOf(t) = 1 => \A i \in 1..Len(queue) : queue[i] # t)
  /\ [][/\ Len(started') >= Len(started)
        /\ SubSeq(started', 1, Len(started)) = started
        /\ \A i \in (Len(started) + 1)..Len(started') :
             /\ started'[i] \in 1..added => taskState[started'[i]] = "pending"
             /\ \A j \in (Len(started) + 1)..Len(started') :
                  i # j => started'[i] # started'[j]]_vars

\* One slot: the first task settled, and the completion started the second
\* and the third, which threw at once, and then the fourth.
C32_Witness ==
  /\ maxConcurrency = 1 /\ added = 4
  /\ taskKind = <<"async", "throws", "throws", "async">>
  /\ started = <<1, 2, 3, 4>>
  /\ taskState[2] = "failed" /\ taskState[3] = "failed"
  /\ taskState[4] = "running"
\* Nothing waits and nothing runs.
Drained == Len(queue) = 0 /\ running = 0

\* C33: with a ceiling of at least 1 and tasks that settle, the queue is
\* drained again and again (every task added is started and settled) and a
\* pending waitForCompletion() returns; with a ceiling of 0 no task is
\* ever started and a waitForCompletion() that found a backlog never
\* returns.
C33_QueueLiveness ==
  /\ []<>(maxConcurrency = 0 \/ Drained)
  /\ (maxConcurrency >= 1 /\ wpc = "sleeping") ~> (wpc = "returned")
  /\ [](maxConcurrency = 0 =>
          /\ started = <<>> /\ running = 0 /\ Len(queue) = added
          /\ (wpc = "sleeping" => added > 0)
          /\ (wpc = "returned" => wsnap[1].added = 0))
  /\ [][(maxConcurrency = 0 /\ wpc = "sleeping") => wpc' = "sleeping"]_vars

\* One slot and three tasks: waitForCompletion() returned after all three
\* were started one after the other and settled.
C33_Witness ==
  /\ maxConcurrency = 1 /\ wpc = "returned"
  /\ wsnap[1].added = 3 /\ wsnap[1].success + wsnap[1].failed = 3
  /\ started = <<1, 2, 3>>
  /\ \A t \in 1..3 : taskKind[t] = "async"
(***************************************************************************)
(* Target, retry budget and termination of the engine                      *)
(***************************************************************************)

\* The upload URLs of the sessions uploadFileToSession is called with.
InitialUrls == {session.uploadUrl : session \in EngineSessions}

\* C34: every chunk PUT goes to the uploadUrl of the session the call was
\* given, whatever uploadUrl the current session carries after a server
\* answer replaced it; a call with a session without uploadUrl fails
\* before any PUT.
C34_PutTargetFixed ==
  /\ epc # "idle" => uploadUrl \in InitialUrls
  /\ lastPut # <<>> =>
       /\ lastPut[1].url = uploadUrl /\ uploadUrl # ""
       /\ lastPut[1].session = currentSession
  /\ (epc # "idle" /\ uploadUrl = "") =>
       /\ epc = "failed" /\ putCount = 0 /\ lastPut = <<>> /\ iter = 0
       /\ engineResult = <<Rejected(MkError("Upload URL is not set", 0, FALSE))>>

\* The second chunk is sent to the first URL although the server's answer
\* to the first chunk named another one.
C34_Witness ==
  /\ epc = "putting" /\ iter = 2
  /\ currentSession.uploadUrl = "https://up/2"
  /\ lastPut[1].url = "https://up/1" /\ lastPut[1].iter = 2
\* C35: the retry budget is per chunk: every iteration enters
\* retryWithBackoff anew, with attempt 0, the full maxRetries and the delay
\* back at 1000 ms, whatever the chunks before it used up; within an
\* iteration at most maxRetries + 1 PUTs are sent, so n chunks send at
\* most n * (maxRetries + 1).
C35_RetryBudgetPerChunk ==
  /\ [](iter >= 1 =>
          /\ attempt <= eMaxRetries /\ calls <= eMaxRetries + 1
          /\ putCount <= iter * (eMaxRetries + 1))
  /\ [][(iter' = iter + 1 /\ epc' = "putting")
          => /\ attempt' = 0 /\ delay' = 1000 /\ maxDelay' = 30000
             /\ maxRetries' = eMaxRetries'
             /\ (epc # "idle" => eMaxRetries' = eMaxRetries)
             /\ calls' = 1 /\ sleepCount' = 0
             /\ putCount' = putCount + 1]_vars

\* With one retry allowed, the first chunk needed two PUTs and the second
\* chunk is in its second attempt too: four PUTs for two chunks.
C35_Witness ==
  /\ epc = "putting" /\ rpc = "calling"
  /\ eMaxRetries = 1 /\ iter = 2 /\ attempt = 1 /\ putCount = 4
C37_RoutingKeepsPrecondition ==
  /\ hpc # "idle" =>
       /\ hFileSize <= MAX_DIRECT_UPLOAD_SIZE =>
            /\ sessionCalls = 0 /\ epc = "idle" /\ putCount = 0
            /\ rpc # "idle"
       /\ hFileSize > MAX_DIRECT_UPLOAD_SIZE =>
            /\ sessionCalls = 1 /\ directPuts = 0
            /\ hpc \notin {"token", "fetch", "backoff"}
  /\ (epc # "idle" /\ uploadUrl # "") =>
       /\ fileSize = hFileSize
       /\ fileSize > MAX_DIRECT_UPLOAD_SIZE
       /\ fileSize >= UPLOAD_CHUNK_SIZE
       /\ range # <<>> /\ ~range[1].threw
  /\ ~ValidationFailed

\* A file one byte over the threshold is in the engine, its first chunk on
\* the way; a file of exactly 5 MiB would have gone to uploadFile.
C37_Witness ==
  /\ hpc = "engine" /\ epc = "putting" /\ iter = 1
  /\ hFileSize = 5242881 /\ fileSize = 5242881
  /\ lastPut[1].contentRange = "bytes 0-5242879/5242881"
  /\ sessionCalls = 1 /\ directPuts = 0
(***************************************************************************)
(* Sleeps of retryWithBackoff (SpecRetry)                                  *)
(***************************************************************************)

\* C38: retryWithBackoff sleeps only between two attempts: while fn runs
\* and when the call has ended, the sleeps number one less than the calls
\* of fn; during a sleep they are as many, and another call follows; and
\* no sleep follows a success, a fatal error or the failure of the last
\* allowed attempt.
C38_SleepsBetweenAttempts ==
  /\ [](/\ rpc \in {"calling", "returned", "threw"} => sleepCount = calls - 1
        /\ rpc = "sleeping" =>
             /\ sleepCount = calls /\ attempt < maxRetries
             /\ Len(history) = calls /\ ~history[calls].ok
        /\ rpc \in {"returned", "threw"} => Len(history) = calls)
  /\ [][/\ (rpc = "sleeping" /\ rpc' # rpc)
             => rpc' = "calling" /\ calls' = calls + 1 /\ sleepCount' = sleepCount
        /\ (rpc = "calling" /\ Len(history') = Len(history) + 1
              /\ \/ history'[Len(history')].ok
                 \/ attempt = maxRetries
                 \/ ~IsRetryable(history'[Len(history')].error))
             => sleepCount' = sleepCount /\ rpc' \in {"returned", "threw"}]_vars

\* Every attempt failed with a 503: four calls of fn, three sleeps.
C38_Witness ==
  /\ rpc = "threw" /\ maxRetries = 3 /\ calls = 4 /\ sleepCount = 3
  /\ Len(history) = 4
  /\ \A i \in 1..4 : ~history[i].ok /\ history[i].error.status = 503
(***************************************************************************)
(* The token slot (SpecToken)                                              *)
(***************************************************************************)

\* C39: this.tokenPromise is set exactly while an acquisition is in flight:
\* it holds the promise of that acquisition and never a settled one; when
\* the acquisition settles, with a token or with an error, the slot is
\* cleared, and a getAccessToken() call made after that starts a new
\* acquisition, so no caller is handed a promise that had already settled.
C39_TokenSlotCleared ==
  /\ [](/\ tokenPromise # 0 <=> outstanding # {}
        /\ tokenPromise # 0 =>
             /\ tokenPromise \in outstanding
             /\ tokenOutcome[tokenPromise] = <<>>)
  /\ [][/\ outstanding' # outstanding /\ Len(tokenOutcome') = Len(tokenOutcome)
             => tokenPromise' = 0 /\ outstanding' = {}
        /\ Len(callerPromise') = Len(callerPromise) + 1 =>
             LET p == callerPromise'[Len(callerPromise')] IN
               /\ tokenOutcome'[p] = <<>>
               /\ tokenPromise' = p
               /\ tokenPromise = 0 =>
                    /\ p = Len(tokenOutcome) + 1
                    /\ outstanding' = {p}]_vars

\* The first acquisition failed; the call made after it started a second
\* one and got its token.
C39_Witness ==
  /\ callerPromise = <<1, 2>> /\ tokenPromise = 0 /\ outstanding = {}
  /\ callerResult[1] # <<>> /\ ~callerResult[1][1].ok
  /\ callerResult[2] = <<Resolved(AccessToken("t2"))>>

====
